---- MODULE Spec2Model ----
(***************************************************************************)
(* State-machine model of the WhatsApp <-> ADK bridge in src/index.js:     *)
(* the versioned artifact store (GcsArtifactService), the session          *)
(* directory (UserSessionManager + WhatsAppBot.activeSessions) and the     *)
(* turn dispatcher (WhatsAppBot.handleIncomingMessages / sendToADK).       *)
(***************************************************************************)
EXTENDS Integers, Sequences, FiniteSets, TLC

(***************************************************************************)
(* Bounds of the model.                                                    *)
(***************************************************************************)
\* saveArtifact calls per logical key
MaxSaves == 3
\* writes by the backend runtime (its own path convention) in the store
MaxAdkWrites == 1
\* objects in the bucket when it is read
MaxObjects == 2

(***************************************************************************)
(* Artifact store: GcsArtifactService                                      *)
(***************************************************************************)
VARIABLES
    objects,      \* the artifacts bucket: physical path -> stored payload
    returned,     \* history: logical key -> versions returned by saveArtifact
    listFailed,   \* history: logical key -> some getFiles call failed
    saveThrew,    \* history: logical key -> some saveArtifact call threw
    overwritten,  \* history: some save replaced an existing object
    adkWrites     \* history: number of objects written by the backend runtime

artVars == <<objects, returned, listFailed, saveThrew, overwritten, adkWrites>>

VARIABLES
    participants,  \* the external users that send messages in this run
    now,           \* wall clock (new Date())
    activeSessions,\* WhatsAppBot.activeSessions: userId -> session object
    sessionFiles,  \* the session bucket: file path -> stored session.json
    pc,            \* per turn: the await the handler is suspended at
    tuser,         \* per turn: remoteJid / userId of the message
    hasMedia,      \* per turn: the message carries an attachment
    session,       \* per turn: the local `session` object
    sessionData,   \* per turn: the record read inside updateUserActivity
    adkSid,        \* per turn: sessionId argument of the running sendToADK
    lookup,        \* per turn: how the session was looked up
    sublog,        \* per turn: the backend submissions made, with outcomes
    response,      \* per turn: the reply text (sendToADK's value or a failure text)
    sent,          \* per turn: messages handed to sendMessage
    aborted,       \* per turn: the handler ended in its outer catch
    turns,         \* history: userId -> turns started
    resolutions,   \* history: userId -> first resolutions of the session
    storeFault,    \* history: userId -> a session-store call failed
    interrupted,   \* history: userId -> a restart killed a turn in flight
    replaced       \* history: userId -> a fault recovery issued a new session

sesVars == <<participants, now, activeSessions, sessionFiles, pc, tuser, hasMedia,
             session, sessionData, adkSid, lookup, sublog, response, sent,
             aborted, turns, resolutions, storeFault, interrupted, replaced>>

VARIABLES
    streamState,   \* the response stream: "none", "open", "ended" or "errored"
    buffer,        \* handleStreamingResponse: an incomplete line is kept back
    fullResponse,  \* handleStreamingResponse: the text kept so far
    hasStarted,    \* handleStreamingResponse: some text part was seen
    promise,       \* the promise handleStreamingResponse returns
    elapsed,       \* time since the stream was handed to the handler
    timer,         \* the setTimeout of handleStreamingResponse
    delivered,     \* history: the complete event lines received, in order
    processed,     \* history: the event lines the data handler went through
    responseData,  \* response.data of the last non-streaming backend response
    loads,         \* artifact name -> what loadArtifactBySession came back with
    result         \* what handleNonStreamingResponse returned for data

strVars == <<streamState, buffer, fullResponse, hasStarted, promise, elapsed,
             timer, delivered, processed>>
envVars == <<responseData, loads, result>>
aggVars == <<strVars, envVars>>

VARIABLES
    readOp,        \* the last read made of the artifacts bucket, with its result
    attempt,       \* the last load by filename with version fallback
    mediaResult,   \* what processMediaMessage returned or threw for the attachment
    mediaSent,     \* the message handleIncomingMessages sent about the attachment
    mediaParts     \* the parts the handler went on to submit to the backend

VARIABLES
    delivery,      \* the last text given to splitMessage, with the chunks returned
    upsert,        \* the last 'messages.upsert' event, with the messages dispatched
    endpoint       \* the configuration and the progress of getActiveAdkEndpoint

outVars == <<delivery, upsert, endpoint>>

auxVars == <<readOp, attempt, mediaResult, mediaSent, mediaParts, outVars>>

\* ADK_APP_NAME
AppName == "app"
ArtUsers == {"u1"}
ArtSessions == {"shared", "s1"}
Filenames == {"a.png"}
Payloads == {"p1", "p2"}

\* a logical artifact key (appName, userId, sessionId, filename)
ArtKeys == {<<AppName, u, s, f>> : u \in ArtUsers, s \in ArtSessions, f \in Filenames}

\* `${appName}/${userId}/${sessionId}/${filename}`, as its path segments
getArtifactPath(appName, userId, filename, sessionId) ==
    <<appName, userId, sessionId, filename>>

\* the last path segment: "v<N>" as written by saveArtifact is <<"v", N>>,
\* the bare "<N>" written by the backend runtime is <<"", N>>
VersionSegment(n) == <<"v", n>>
BareSegment(n) == <<"", n>>

\* `${artifactPath}/v${nextVersion}`
versionedPath(artifactPath, n) == Append(artifactPath, VersionSegment(n))

Max(S) == CHOOSE x \in S : \A y \in S : y <= x

\* listVersions: the versions N of the objects named `${artifactPath}/v<N>`;
\* a failing getFiles is caught and yields the empty list
listVersions(objs, appName, userId, filename, sessionId, listOk) ==
    IF ~listOk THEN {}
    ELSE LET artifactPath == getArtifactPath(appName, userId, filename, sessionId)
         IN  {p[5][2] : p \in {q \in DOMAIN objs :
                                  /\ SubSeq(q, 1, 4) = artifactPath
                                  /\ q[5][1] = "v"}}

\* versions.length > 0 ? Math.max(...versions) + 1 : 1, with the +1 forgotten
nextVersionNoIncrement(versions) ==
    IF versions # {} THEN Max(versions) ELSE 1

\* versions.length > 0 ? Math.max(...versions) + 1 : 1
nextVersion(versions) ==
    IF versions # {} THEN Max(versions) + 1 ELSE 1

\* one saveArtifact call as a function of the bucket: list, pick the next
\* version, write the object at the versioned path; a failing write throws
\* (threw) and no version is returned
saveArtifact(objs, appName, userId, filename, sessionId, data, listOk, writeOk) ==
    LET versions == listVersions(objs, appName, userId, filename, sessionId, listOk)
        n == nextVersion(versions)
        path == versionedPath(getArtifactPath(appName, userId, filename, sessionId), n)
    IN  IF writeOk
        THEN [threw |-> FALSE, version |-> n, path |-> path,
              objects |-> [p \in DOMAIN objs \cup {path} |->
                              IF p = path THEN data ELSE objs[p]]]
        ELSE [threw |-> TRUE, version |-> 0, path |-> path, objects |-> objs]

\* a caller of the artifact service saves one payload under a logical key
SaveCall(key, data, listOk, writeOk) ==
    LET r == saveArtifact(objects, key[1], key[2], key[4], key[3], data, listOk, writeOk)
    IN  /\ Len(returned[key]) < MaxSaves
        /\ listFailed' = [listFailed EXCEPT ![key] = @ \/ ~listOk]
        /\ saveThrew' = [saveThrew EXCEPT ![key] = @ \/ r.threw]
        /\ objects' = r.objects
        /\ returned' = [returned EXCEPT ![key] =
                            IF r.threw THEN @ ELSE Append(@, r.version)]
        /\ overwritten' = (overwritten \/ (~r.threw /\ r.path \in DOMAIN objects))
        /\ UNCHANGED <<adkWrites, sesVars, aggVars, auxVars>>

\* the backend runtime stores its own artifacts at
\* {appName}/{userId}/{sessionId}/{filename}/{version}
adkRuntimeWrite(key, n, data) ==
    LET path == Append(getArtifactPath(key[1], key[2], key[4], key[3]), BareSegment(n))
    IN  /\ adkWrites < MaxAdkWrites
        /\ adkWrites' = adkWrites + 1
        /\ objects' = [p \in DOMAIN objects \cup {path} |->
                          IF p = path THEN data ELSE objects[p]]
        /\ UNCHANGED <<returned, listFailed, saveThrew, overwritten, sesVars, aggVars, auxVars>>

ArtInit ==
    /\ objects = <<>>
    /\ returned = [k \in ArtKeys |-> <<>>]
    /\ listFailed = [k \in ArtKeys |-> FALSE]
    /\ saveThrew = [k \in ArtKeys |-> FALSE]
    /\ overwritten = FALSE
    /\ adkWrites = 0

(***************************************************************************)
(* Artifact store: reads                                                   *)
(***************************************************************************)
\* config.gcs.artifactsFolder, the first path segment of the layout that
\* listArtifactKeys reads: artifacts/app/userId/filename/v1
artifactsFolder == "artifacts"

\* an object of the flat layout {artifactsFolder}/{appName}/{userId}/{filename}/v{N}
flatPath(appName, userId, filename, n) ==
    <<artifactsFolder, appName, userId, filename, VersionSegment(n)>>

\* an object of the flat layout is in the bucket (stored before the path
\* structure was changed to the session-scoped one)
flatWrite(userId, filename, n, data) ==
    LET path == flatPath(AppName, userId, filename, n)
    IN  /\ path \notin DOMAIN objects
        /\ objects' = [p \in DOMAIN objects \cup {path} |->
                          IF p = path THEN data ELSE objects[p]]
        /\ UNCHANGED <<returned, listFailed, saveThrew, overwritten, adkWrites,
                       sesVars, aggVars, auxVars>>

\* what a load returns: null, or the stored payload; threw: the call rejected
Null == [kind |-> "null", data |-> ""]
PartOf(data) == [kind |-> "part", data |-> data]
Threw == [kind |-> "threw", data |-> ""]

\* loadArtifact(appName, userId, filename, version = null, sessionId): the
\* latest v<N> object when no version is given; null when there is none, when
\* the object does not exist, and when exists/download throws (version 0
\* stands for null: !targetVersion)
loadArtifact(objs, appName, userId, filename, version, sessionId, listOk, readOk) ==
    LET artifactPath == getArtifactPath(appName, userId, filename, sessionId)
        versions == listVersions(objs, appName, userId, filename, sessionId, listOk)
        targetVersion == IF version # 0 THEN version
                         ELSE IF versions = {} THEN 0 ELSE Max(versions)
        path == versionedPath(artifactPath, targetVersion)
    IN  IF targetVersion = 0 THEN Null
        ELSE IF ~readOk THEN Null
        ELSE IF path \notin DOMAIN objs THEN Null
        ELSE PartOf(objs[path])

\* loadArtifactBySession(appName, userId, sessionId, filename, version = 0):
\* the object at `${appName}/${userId}/${sessionId}/${filename}/${version}`;
\* null when the connectivity test fails or the object does not exist; when
\* exists/download rejects, the catch block reads artifactPath, a const of
\* the try block, and the call rejects with that ReferenceError
loadArtifactBySession(objs, appName, userId, sessionId, filename, version, connected, readOk) ==
    LET artifactPath == Append(<<appName, userId, sessionId, filename>>, BareSegment(version))
    IN  IF ~connected THEN Null
        ELSE IF ~readOk THEN Threw
        ELSE IF artifactPath \notin DOMAIN objs THEN Null
        ELSE PartOf(objs[artifactPath])

\* listArtifactKeys(appName, userId): the names pathParts[0] of the objects
\* under `${artifactsFolder}/${appName}/${userId}/` whose next segment
\* starts with 'v'; [] when getFiles throws
listArtifactKeys(objs, appName, userId, listOk) ==
    IF ~listOk THEN {}
    ELSE LET userPath == <<artifactsFolder, appName, userId>>
         IN  {p[4] : p \in {q \in DOMAIN objs :
                                /\ SubSeq(q, 1, 3) = userPath
                                /\ Len(q) >= 5
                                /\ q[5][1] = "v"}}

\* no read made yet
NoRead == [op |-> "none", key |-> <<>>, version |-> 0, storeOk |-> TRUE,
           result |-> Null, keys |-> {}]

ReadInit == readOp = NoRead

(***************************************************************************)
(* Load by filename with version fallback: upload_artifact_to_fal          *)
(***************************************************************************)
\* longest suffix typed after the stored name
MaxSuffix == 4

\* a filename is the sequence of its characters
ReportPdf == <<"r", "e", "p", "o", "r", "t", ".", "p", "d", "f">>
Digits == {"3"}
SuffixChars == {" ", "_", "v", "(", ")"} \cup Digits

\* \d+
IsDigits(s) == Len(s) >= 1 /\ \A i \in 1..Len(s) : s[i] \in Digits

\* version_patterns: each is an opening, \d+, a closing, and $
version_patterns ==
    << [open |-> <<" ", "v">>, close |-> <<>>],
       [open |-> <<"_", "v">>, close |-> <<>>],
       [open |-> <<" ", "(">>, close |-> <<")">>] >>

\* the positions at which the pattern matches up to the end of s
MatchStarts(pattern, s) ==
    {k \in 1..Len(s) :
        LET afterOpen == k + Len(pattern.open)
            beforeClose == Len(s) - Len(pattern.close)
        IN  /\ afterOpen <= beforeClose
            /\ SubSeq(s, k, afterOpen - 1) = pattern.open
            /\ IsDigits(SubSeq(s, afterOpen, beforeClose))
            /\ SubSeq(s, beforeClose + 1, Len(s)) = pattern.close}

\* re.sub(pattern, '', filename): the leftmost match is removed
sub(pattern, filename) ==
    LET starts == MatchStarts(pattern, filename)
    IN  IF starts = {} THEN filename
        ELSE SubSeq(filename, 1, (CHOOSE k \in starts : \A j \in starts : k <= j) - 1)

RECURSIVE appendCleaned(_, _, _)
\* for pattern in version_patterns: append cleaned when it differs
appendCleaned(possible, filename, i) ==
    IF i > Len(version_patterns) THEN possible
    ELSE LET cleaned == sub(version_patterns[i], filename)
         IN  appendCleaned(IF cleaned # filename THEN Append(possible, cleaned)
                           ELSE possible, filename, i + 1)

\* possible_filenames = [filename] with no stripping at all
possible_filenamesOriginalOnly(filename) == <<filename>>

\* possible_filenames: the original, then each stripped variation
possible_filenames(filename) == appendCleaned(<<filename>>, filename, 1)

\* tool_context.load_artifact(attempt_filename) returns (does not raise)
load_artifact(stored, storeOk, attempt_filename) ==
    storeOk /\ attempt_filename \in stored

RECURSIVE tryEach(_, _, _, _)
\* for attempt_filename in possible_filenames: try ... break / except: continue;
\* the value is the number of load attempts made
tryEach(possible, stored, storeOk, i) ==
    IF i > Len(possible) THEN Len(possible)
    ELSE IF load_artifact(stored, storeOk, possible[i]) THEN i
    ELSE tryEach(possible, stored, storeOk, i + 1)

\* upload_artifact_to_fal(filename, tool_context), up to the load: the names
\* tried in order, the name that loaded if any, and on total failure the
\* attempted variations shown
upload_artifact_to_fal(filename, stored, storeOk) ==
    LET possible == possible_filenames(filename)
        n == tryEach(possible, stored, storeOk, 1)
        ok == n >= 1 /\ load_artifact(stored, storeOk, possible[n])
    IN  [done |-> TRUE, filename |-> filename, stored |-> stored, storeOk |-> storeOk,
         tried |-> SubSeq(possible, 1, n),
         loaded |-> IF ok THEN <<possible[n]>> ELSE <<>>,
         shown |-> IF ok THEN <<>> ELSE possible]

NoAttempt == [done |-> FALSE, filename |-> <<>>, stored |-> {}, storeOk |-> TRUE, tried |-> <<>>,
              loaded |-> <<>>, shown |-> <<>>]

FallbackInit == attempt = NoAttempt

\* the agent's tool is called with a filename
UploadArtifactToFal(filename, stored, storeOk) ==
    /\ attempt' = upload_artifact_to_fal(filename, stored, storeOk)
    /\ UNCHANGED <<artVars, sesVars, aggVars, readOp, mediaResult, mediaSent, mediaParts, outVars>>


\* a caller loads an artifact through loadArtifact
LoadArtifact(key, version, listOk, readOk) ==
    /\ readOp' = [NoRead EXCEPT !.op = "loadArtifact", !.key = key,
                                !.version = version,
                                !.storeOk = (version # 0 \/ listOk) /\ readOk,
                                !.result = loadArtifact(objects, key[1], key[2], key[4],
                                                        version, key[3], listOk, readOk)]
    /\ UNCHANGED <<artVars, sesVars, aggVars, attempt, mediaResult, mediaSent, mediaParts, outVars>>

\* a caller loads an artifact through loadArtifactBySession
LoadArtifactBySession(key, version, connected, readOk) ==
    /\ readOp' = [NoRead EXCEPT !.op = "loadArtifactBySession", !.key = key,
                                !.version = version,
                                !.storeOk = connected /\ readOk,
                                !.result = loadArtifactBySession(objects, key[1], key[2],
                                               key[3], key[4], version, connected, readOk)]
    /\ UNCHANGED <<artVars, sesVars, aggVars, attempt, mediaResult, mediaSent, mediaParts, outVars>>

\* a caller lists the artifact filenames of a user
ListArtifactKeys(userId, listOk) ==
    /\ readOp' = [NoRead EXCEPT !.op = "listArtifactKeys",
                                !.key = <<AppName, userId>>,
                                !.storeOk = listOk,
                                !.keys = listArtifactKeys(objects, AppName, userId, listOk)]
    /\ UNCHANGED <<artVars, sesVars, aggVars, attempt, mediaResult, mediaSent, mediaParts, outVars>>

(***************************************************************************)
(* Attachments: MediaHandler and the media block of the message handler    *)
(***************************************************************************)
\* pieces in a declared filename
MaxName == 2

XlsxMime == "application/vnd.openxmlformats-officedocument.spreadsheetml.sheet"
DocxMime == "application/vnd.openxmlformats-officedocument.wordprocessingml.document"
OctetStream == "application/octet-stream"
TextPlain == "text/plain"

\* a filename is the sequence of its pieces: a stem and extensions, each as
\* typed; a text is the sequence of its pieces
NamePieces == {"report", ".xlsx", ".XLSX", ".docx", ".png"}

\* the downloaded bytes, and the text a conversion renders from them
RawBuffer == "raw"
TextContent == "text"

\* getExtensionFromMimeType: the rows of mimeToExt for the types sent here
getExtensionFromMimeType(mimeType) ==
    CASE mimeType = "image/png" -> ".png"
      [] mimeType = "application/pdf" -> ".pdf"
      [] mimeType = DocxMime -> ".docx"
      [] mimeType = XlsxMime -> ".xlsx"
      [] OTHER -> ".bin"

\* `media_${uuid}${extension}`
generateRandomFilename(mimeType) == <<"media_uuid", getExtensionFromMimeType(mimeType)>>

\* String.prototype.replace(searchValue, newValue) with a string pattern:
\* the first occurrence, compared case-sensitively, is replaced
replace(filename, searchValue, newValue) ==
    LET hits == {i \in 1..Len(filename) : filename[i] = searchValue}
    IN  IF hits = {} THEN filename
        ELSE [filename EXCEPT ![CHOOSE i \in hits : \A j \in hits : i <= j] = newValue]

\* convertXlsxToText(buffer): the sheets as text, or the Error thrown
convertXlsxToText(bytes, convertOk) ==
    IF convertOk THEN [threw |-> FALSE, value |-> TextContent, message |-> <<>>]
    ELSE [threw |-> TRUE, value |-> "",
          message |-> <<"Failed to process ", "Excel", " file. Please ensure it's a valid ",
                        "XLSX", " file.">>]

\* convertDocxToText(buffer): the raw text, or the Error thrown
convertDocxToText(bytes, convertOk) ==
    IF convertOk THEN [threw |-> FALSE, value |-> TextContent, message |-> <<>>]
    ELSE [threw |-> TRUE, value |-> "",
          message |-> <<"Failed to process ", "Word", " document. Please ensure it's a valid ",
                        "DOCX", " file.">>]

\* a message with an attachment: the declared mimetype and fileName ("" and
\* <<>> when absent) and what fileTypeFromBuffer finds in the bytes
MediaMessage(mimetype, fileName, detected) ==
    [mimetype |-> mimetype, fileName |-> fileName, detected |-> detected]

\* what processMediaMessage throws
MediaThrew(error, objs) ==
    [threw |-> TRUE, error |-> error, filename |-> <<>>, mimeType |-> "", version |-> 0,
     part |-> [mime_type |-> "", data |-> ""], converted |-> FALSE, originalFormat |-> "",
     objects |-> objs]

\* the converted branch of processMediaMessage, after the conversion
savedAsText(objs, userId, sessionId, filename, ext, format, text, listOk, writeOk) ==
    LET part == [mime_type |-> TextPlain, data |-> text]
        saved == saveArtifact(objs, AppName, userId, replace(filename, ext, ".txt"),
                              sessionId, part.data, listOk, writeOk)
    IN  IF saved.threw THEN MediaThrew(<<"save failed">>, objs)
        ELSE [threw |-> FALSE, error |-> <<>>,
              filename |-> replace(filename, ext, ".txt"), mimeType |-> TextPlain,
              version |-> saved.version, part |-> part, converted |-> TRUE,
              originalFormat |-> format, objects |-> saved.objects]

\* processMediaMessage(message, userId, sessionId); converted is left
\* undefined in the last branch, which is FALSE here
processMediaMessage(objs, message, userId, sessionId, downloadOk, convertOk, listOk, writeOk) ==
    LET mimeType == IF message.mimetype # "" THEN message.mimetype
                    ELSE IF message.detected # "" THEN message.detected
                    ELSE OctetStream
        filename == IF message.fileName # <<>> THEN message.fileName
                    ELSE generateRandomFilename(mimeType)
    IN  IF ~downloadOk THEN MediaThrew(<<"download failed">>, objs)
        ELSE IF mimeType = XlsxMime
        THEN LET textContent == convertXlsxToText(RawBuffer, convertOk)
             IN  IF textContent.threw THEN MediaThrew(textContent.message, objs)
                 ELSE savedAsText(objs, userId, sessionId, filename, ".xlsx", "XLSX",
                                  textContent.value, listOk, writeOk)
        ELSE IF mimeType = DocxMime
        THEN LET textContent == convertDocxToText(RawBuffer, convertOk)
             IN  IF textContent.threw THEN MediaThrew(textContent.message, objs)
                 ELSE savedAsText(objs, userId, sessionId, filename, ".docx", "DOCX",
                                  textContent.value, listOk, writeOk)
        ELSE LET part == [mime_type |-> mimeType, data |-> RawBuffer]
                 saved == saveArtifact(objs, AppName, userId, filename, sessionId,
                                       part.data, listOk, writeOk)
             IN  IF saved.threw THEN MediaThrew(<<"save failed">>, objs)
                 ELSE [threw |-> FALSE, error |-> <<>>, filename |-> filename,
                       mimeType |-> mimeType, version |-> saved.version, part |-> part,
                       converted |-> FALSE, originalFormat |-> "", objects |-> saved.objects]

\* the text sent to the user about the attachment (lines 1033-1047)
mediaNotice(mediaResult_) ==
    IF mediaResult_.threw
    THEN <<"Sorry, I had trouble processing your media file. Please try again.">>
    ELSE IF mediaResult_.converted
    THEN IF mediaResult_.originalFormat = "XLSX"
         THEN <<"Excel", " file converted to text format for analysis: ">> \o mediaResult_.filename
         ELSE IF mediaResult_.originalFormat = "DOCX"
         THEN <<"Word", " document converted to text format for analysis: ">> \o mediaResult_.filename
         ELSE <<mediaResult_.originalFormat, " file converted to text format: ">> \o mediaResult_.filename
    ELSE <<"Uploaded ">> \o mediaResult_.filename \o <<" (", mediaResult_.mimeType, ")">>

NoMedia == [done |-> FALSE, message |-> MediaMessage("", <<>>, ""), convertThrew |-> FALSE,
            threw |-> FALSE, error |-> <<>>, filename |-> <<>>, mimeType |-> "",
            version |-> 0, part |-> [mime_type |-> "", data |-> ""],
            converted |-> FALSE, originalFormat |-> ""]

MediaInit ==
    /\ mediaResult = NoMedia
    /\ mediaSent = <<>>
    /\ mediaParts = [submitted |-> FALSE, parts |-> <<>>]

\* the media block of handleIncomingMessages (lines 1019-1050) for a message
\* with an attachment: the attachment is processed, its part is pushed, the
\* user is told, and the handler goes on to sendToADK with mediaParts; when
\* processMediaMessage throws, the error text is sent and the handler returns
HandleMedia(message, userId, sessionId, downloadOk, convertOk, listOk, writeOk) ==
    LET r == processMediaMessage(objects, message, userId, sessionId,
                                 downloadOk, convertOk, listOk, writeOk)
    IN  /\ mediaResult' = [done |-> TRUE, message |-> message,
                           convertThrew |-> r.threw /\ r.error \in
                               {convertXlsxToText(RawBuffer, FALSE).message,
                                convertDocxToText(RawBuffer, FALSE).message},
                           threw |-> r.threw, error |-> r.error, filename |-> r.filename,
                           mimeType |-> r.mimeType, version |-> r.version, part |-> r.part,
                           converted |-> r.converted, originalFormat |-> r.originalFormat]
        /\ objects' = r.objects
        /\ mediaSent' = <<mediaNotice(r)>>
        /\ mediaParts' = IF r.threw THEN [submitted |-> FALSE, parts |-> <<>>]
                         ELSE [submitted |-> TRUE,
                               parts |-> <<[mime_type |-> r.mimeType, data |-> r.part.data]>>]
        /\ UNCHANGED <<returned, listFailed, saveThrew, overwritten, adkWrites,
                       sesVars, aggVars, readOp, attempt, outVars>>

(***************************************************************************)
(* Session directory and turn dispatcher                                   *)
(***************************************************************************)
\* turns the dispatcher accepts per user
MaxTurns == 2
\* backend session identifiers that can be live at once for one user
MaxIds == 4
\* last value of the wall clock, in ticks
MaxTime == 1
\* entries kept in the per-turn log of backend submissions
MaxLog == 3
\* outbound messages counted per turn
MaxSent == 3

\* config.bot.sessionMaxAgeMs
sessionMaxAgeMs == 1
\* the clock is read in ticks; one tick is longer than the max age, so that
\* an entry one tick old has expired
TickMs == sessionMaxAgeMs + 1
\* now - session.lastActivity > maxAge
Expired(lastActivity, clock) == (clock - lastActivity) * TickMs > sessionMaxAgeMs

U1 == <<"6", "5", "@", "s">>
U2 == <<"6", "6", "@", "s">>
\* two JIDs of which one has a device part and the other an agent part
U3 == <<"6", "5", ":", "1", "@", "s">>
U4 == <<"6", "5", "_", "1", "@", "s">>
AllUsers == {U1, U2, U3, U4}
Turns == {1, 2}
SessionIds == 1..MaxIds
NoUser == <<>>

\* the characters kept by /[^a-zA-Z0-9@.]/g
SafeChars ==
    {"a","b","c","d","e","f","g","h","i","j","k","l","m","n","o","p","q","r",
     "s","t","u","v","w","x","y","z","A","B","C","D","E","F","G","H","I","J",
     "K","L","M","N","O","P","Q","R","S","T","U","V","W","X","Y","Z","0","1",
     "2","3","4","5","6","7","8","9","@","."}

\* userId.replace(/[^a-zA-Z0-9@.]/g, '_') and the session file path
getSessionFilePath(userId) ==
    <<"user_sessions",
      [i \in DOMAIN userId |-> IF userId[i] \in SafeChars THEN userId[i] ELSE "_"],
      "session.json">>

\* the empty value of a session.json record / of a session object
NoFile == [userId |-> NoUser, sessionId |-> 0, createdAt |-> 0,
           lastActivity |-> 0, isNewUser |-> FALSE]
NoSession == [sessionId |-> 0, createdAt |-> 0, lastActivity |-> 0,
              isReturningUser |-> FALSE]

\* getUserSession with a failing read propagating the error to the caller
getUserSessionThrowing(files, userId, readOk) ==
    LET filePath == getSessionFilePath(userId)
    IN  IF ~readOk THEN [threw |-> TRUE, found |-> FALSE, data |-> NoFile]
        ELSE IF filePath \notin DOMAIN files
             THEN [threw |-> FALSE, found |-> FALSE, data |-> NoFile]
             ELSE [threw |-> FALSE, found |-> TRUE, data |-> files[filePath]]

\* getUserSession that never finds the stored record
getUserSessionAlwaysNew(files, userId, readOk) ==
    [threw |-> FALSE, found |-> FALSE, data |-> NoFile]

\* getUserSession: null when the file does not exist, the parsed record when
\* it does, and null again when exists/download/parse throws
getUserSession(files, userId, readOk) ==
    LET filePath == getSessionFilePath(userId)
    IN  IF ~readOk THEN [threw |-> FALSE, found |-> FALSE, data |-> NoFile]
        ELSE IF filePath \notin DOMAIN files
             THEN [threw |-> FALSE, found |-> FALSE, data |-> NoFile]
             ELSE [threw |-> FALSE, found |-> TRUE, data |-> files[filePath]]

\* storeUserSession without the spread of sessionData: a new record each time
storeUserSessionWithoutSpread(files, userId, sessionId, extra, hasExtra, writeOk) ==
    LET filePath == getSessionFilePath(userId)
        sessionInfo == [userId |-> userId, sessionId |-> sessionId,
                        createdAt |-> now, lastActivity |-> now, isNewUser |-> TRUE]
    IN  IF writeOk
        THEN [f \in DOMAIN files \cup {filePath} |->
                 IF f = filePath THEN sessionInfo ELSE files[f]]
        ELSE files

\* storeUserSession: {userId, sessionId, createdAt: now, lastActivity: now,
\* ...sessionData} saved at the user's path; a failing save changes nothing
storeUserSession(files, userId, sessionId, extra, hasExtra, writeOk) ==
    LET filePath == getSessionFilePath(userId)
        sessionInfo == IF hasExtra THEN extra
                       ELSE [userId |-> userId, sessionId |-> sessionId,
                             createdAt |-> now, lastActivity |-> now,
                             isNewUser |-> TRUE]
    IN  IF writeOk
        THEN [f \in DOMAIN files \cup {filePath} |->
                 IF f = filePath THEN sessionInfo ELSE files[f]]
        ELSE files

\* the identifiers some live reference still holds for this user
IdsInUse(userId) ==
    {adkSid[t] : t \in {x \in Turns : tuser[x] = userId}}
    \cup {session[t].sessionId : t \in {x \in Turns : tuser[x] = userId}}
    \cup {sessionData[t].sessionId : t \in {x \in Turns : tuser[x] = userId}}
    \cup UNION {{sublog[t][i].sessionId : i \in DOMAIN sublog[t]} :
                   t \in {x \in Turns : tuser[x] = userId}}
    \cup (IF userId \in DOMAIN activeSessions
          THEN {activeSessions[userId].sessionId} ELSE {})
    \cup {sessionFiles[f].sessionId : f \in DOMAIN sessionFiles}
    \cup (IF userId \in AllUsers
          THEN {resolutions[userId][i].sessionId : i \in DOMAIN resolutions[userId]}
          ELSE {})

\* the identifier the backend issues next for this user: one that no live
\* reference holds (identifiers are opaque, the least such stands for any)
FreshIds(userId) ==
    LET free == SessionIds \ IdsInUse(userId)
    IN  IF free = {} THEN {} ELSE {CHOOSE i \in free : \A j \in free : i <= j}

\* validateStatus of the axios.post in sendToADK
validateStatus(status) == status >= 200 /\ status < 600

\* what one axios.post to /run can come back with: an HTTP status, or an
\* error code without a response
Statuses == {199, 200, 404, 500, 503}
ErrorCodes == {"ECONNREFUSED", "ECONNABORTED", "ENOTFOUND"}
Outcomes == {[status |-> st, code |-> ""] : st \in Statuses}
            \cup {[status |-> 0, code |-> c] : c \in ErrorCodes}

\* the user-facing strings of handleIncomingMessages and sendToADK
CreateFailedText == "unable to create a new conversation session"
MediaErrorText == "trouble processing your media file"
ServiceIssuesText == "the AI service is currently experiencing issues"
UnexpectedStatusText == "the AI service returned an unexpected response"
HttpErrorText == "I encountered an error: <status>"
UnavailableText == "the AI service is currently unavailable"
TimedOutText == "the request timed out"
UnexpectedErrorText == "I encountered an unexpected error"
AnswerText == "<text of the backend response>"
NoResponse == ""

\* no lookup made yet; fileSid is the sessionId the user's session.json held
\* when the handler looked the user up (0: no such file)
NoLookup == [how |-> "none", fileSid |-> 0]

\* append to a bounded log; a full log keeps its first entries and the latest
Log(lg, e) == IF Len(lg) < MaxLog THEN Append(lg, e) ELSE [lg EXCEPT ![MaxLog] = e]
Inc(n, max) == IF n < max THEN n + 1 ELSE n

TurnInit ==
    /\ now = 0
    /\ activeSessions = <<>>
    /\ sessionFiles = <<>>
    /\ pc = [t \in Turns |-> "idle"]
    /\ tuser = [t \in Turns |-> NoUser]
    /\ hasMedia = [t \in Turns |-> FALSE]
    /\ session = [t \in Turns |-> NoSession]
    /\ sessionData = [t \in Turns |-> NoFile]
    /\ adkSid = [t \in Turns |-> 0]
    /\ lookup = [t \in Turns |-> NoLookup]
    /\ sublog = [t \in Turns |-> <<>>]
    /\ response = [t \in Turns |-> NoResponse]
    /\ sent = [t \in Turns |-> 0]
    /\ aborted = [t \in Turns |-> FALSE]
    /\ turns = [u \in AllUsers |-> 0]
    /\ resolutions = [u \in AllUsers |-> <<>>]
    /\ storeFault = [u \in AllUsers |-> FALSE]
    /\ interrupted = [u \in AllUsers |-> FALSE]
    /\ replaced = [u \in AllUsers |-> FALSE]

Upd(f, k, v) == [x \in DOMAIN f \cup {k} |-> IF x = k THEN v ELSE f[x]]

\* the sessionId stored in the user's session.json, 0 when there is none
FileSid(userId) ==
    IF getSessionFilePath(userId) \in DOMAIN sessionFiles
    THEN sessionFiles[getSessionFilePath(userId)].sessionId ELSE 0

\* the first resolutions of a user's session, as the handler made them
Resolved(userId, s, via, created) ==
    IF Len(resolutions[userId]) < 2
    THEN [resolutions EXCEPT ![userId] =
             Append(@, [sessionId |-> s.sessionId,
                        isReturningUser |-> s.isReturningUser,
                        via |-> via, created |-> created,
                        faulted |-> storeFault[userId],
                        interrupted |-> interrupted[userId],
                        replaced |-> replaced[userId]])]
    ELSE resolutions

\* handleIncomingMessages up to its first await: the message is accepted and
\* the cache is consulted (lines 915-971 and 1013-1016)
StartTurn(t, u, media) ==
    /\ pc[t] = "idle"
    /\ \A x \in Turns : x < t => pc[x] # "idle"
    /\ u \in participants
    /\ \A x \in Turns : tuser[x] # u
    /\ turns[u] < MaxTurns
    /\ turns' = [turns EXCEPT ![u] = @ + 1]
    /\ tuser' = [tuser EXCEPT ![t] = u]
    /\ hasMedia' = [hasMedia EXCEPT ![t] = media]
    /\ IF u \in DOMAIN activeSessions
       THEN LET s == [activeSessions[u] EXCEPT !.lastActivity = now]
            IN  /\ session' = [session EXCEPT ![t] = s]
                /\ activeSessions' = [activeSessions EXCEPT ![u] = s]
                /\ lookup' = [lookup EXCEPT ![t] = [how |-> "hit", fileSid |-> FileSid(u)]]
                /\ resolutions' = Resolved(u, s, "cache", FALSE)
                /\ pc' = [pc EXCEPT ![t] = "actRead"]
       ELSE /\ pc' = [pc EXCEPT ![t] = "lookup"]
            /\ UNCHANGED <<session, activeSessions, lookup, resolutions>>
    /\ UNCHANGED <<aggVars, auxVars, artVars, participants, now, sessionFiles, sessionData, adkSid,
                   sublog, response, sent, aborted, storeFault, interrupted, replaced>>

\* the continuation after the session is known (lines 1012 and 1019-1062):
\* a looked-up or created session is put in the cache, then the media step
\* or the submission follows
AfterSession(t, files) ==
    /\ sessionFiles' = files
    /\ sessionData' = [sessionData EXCEPT ![t] = NoFile]
    /\ activeSessions' = IF lookup[t].how = "hit" THEN activeSessions
                         ELSE Upd(activeSessions, tuser[t], session[t])
    /\ IF hasMedia[t]
       THEN /\ pc' = [pc EXCEPT ![t] = "media"]
            /\ UNCHANGED adkSid
       ELSE /\ pc' = [pc EXCEPT ![t] = "submit"]
            /\ adkSid' = [adkSid EXCEPT ![t] = session[t].sessionId]

\* await sessionManager.getUserSession(userId) (lines 971-989)
Lookup(t, readOk) ==
    LET u == tuser[t]
        r == getUserSession(sessionFiles, u, readOk)
    IN  /\ pc[t] = "lookup"
        /\ storeFault' = [storeFault EXCEPT ![u] = @ \/ ~readOk]
        /\ IF r.threw
           THEN /\ aborted' = [aborted EXCEPT ![t] = TRUE]
                /\ pc' = [pc EXCEPT ![t] = "done"]
                /\ lookup' = [lookup EXCEPT ![t] = [how |-> "failed", fileSid |-> FileSid(u)]]
                /\ UNCHANGED <<session, resolutions>>
           ELSE IF r.found
           THEN LET s == [sessionId |-> r.data.sessionId,
                          createdAt |-> r.data.createdAt,
                          lastActivity |-> now, isReturningUser |-> TRUE]
                IN  /\ session' = [session EXCEPT ![t] = s]
                    /\ lookup' = [lookup EXCEPT ![t] = [how |-> "found", fileSid |-> FileSid(u)]]
                    /\ resolutions' = Resolved(u, s, "durable", FALSE)
                    /\ pc' = [pc EXCEPT ![t] = "actRead"]
                    /\ UNCHANGED aborted
           ELSE /\ lookup' = [lookup EXCEPT ![t] =
                                 [how |-> IF readOk THEN "absent" ELSE "failed",
                                  fileSid |-> FileSid(u)]]
                /\ pc' = [pc EXCEPT ![t] = "create"]
                /\ UNCHANGED <<session, resolutions, aborted>>
        /\ UNCHANGED <<aggVars, auxVars, artVars, participants, now, activeSessions, sessionFiles, tuser,
                       hasMedia, sessionData, adkSid, sublog, response, sent,
                       turns, interrupted, replaced>>

\* updateUserActivity, first await: getUserSession (lines 783-785)
ActivityRead(t, readOk) ==
    LET u == tuser[t]
        r == getUserSession(sessionFiles, u, readOk)
    IN  /\ pc[t] = "actRead"
        /\ storeFault' = [storeFault EXCEPT ![u] = @ \/ ~readOk]
        /\ IF r.found /\ ~r.threw
           THEN /\ sessionData' = [sessionData EXCEPT ![t] =
                                      [r.data EXCEPT !.lastActivity = now]]
                /\ pc' = [pc EXCEPT ![t] = "actWrite"]
                /\ UNCHANGED <<activeSessions, sessionFiles, adkSid>>
           ELSE AfterSession(t, sessionFiles)
        /\ UNCHANGED <<aggVars, auxVars, artVars, participants, now, tuser, hasMedia, session, lookup,
                       sublog, response, sent, aborted, turns, resolutions,
                       interrupted, replaced>>

\* updateUserActivity, second await: storeUserSession(userId,
\* sessionData.sessionId, sessionData) (lines 786-788)
ActivityWrite(t, writeOk) ==
    LET u == tuser[t]
    IN  /\ pc[t] = "actWrite"
        /\ storeFault' = [storeFault EXCEPT ![u] = @ \/ ~writeOk]
        /\ AfterSession(t, storeUserSession(sessionFiles, u, sessionData[t].sessionId,
                                            sessionData[t], TRUE, writeOk))
        /\ UNCHANGED <<aggVars, auxVars, artVars, participants, now, tuser, hasMedia, session, lookup,
                       sublog, response, sent, aborted, turns, resolutions,
                       interrupted, replaced>>

\* the new-user branch without the return after the failure message: the
\* null identifier is carried on to storeUserSession
CreateFallingThrough(t, id) ==
    LET u == tuser[t]
        s == [sessionId |-> id, createdAt |-> now, lastActivity |-> now,
              isReturningUser |-> FALSE]
    IN  /\ pc[t] = "create"
        /\ session' = [session EXCEPT ![t] = s]
        /\ resolutions' = Resolved(u, s, "created", TRUE)
        /\ pc' = [pc EXCEPT ![t] = "store"]
        /\ IF id = 0
           THEN /\ sent' = [sent EXCEPT ![t] = Inc(@, MaxSent)]
                /\ response' = [response EXCEPT ![t] = CreateFailedText]
           ELSE UNCHANGED <<sent, response>>
        /\ UNCHANGED <<aggVars, auxVars, artVars, participants, now, activeSessions, sessionFiles, tuser,
                       hasMedia, sessionData, adkSid, lookup, sublog, aborted,
                       turns, storeFault, interrupted, replaced>>

\* await this.createADKSession(userId) for a new user (lines 989-1001);
\* id = 0 is the null of a failed creation
Create(t, id) ==
    LET u == tuser[t]
        s == [sessionId |-> id, createdAt |-> now, lastActivity |-> now,
              isReturningUser |-> FALSE]
    IN  /\ pc[t] = "create"
        /\ IF id = 0
           THEN /\ sent' = [sent EXCEPT ![t] = Inc(@, MaxSent)]
                /\ response' = [response EXCEPT ![t] = CreateFailedText]
                /\ pc' = [pc EXCEPT ![t] = "done"]
                /\ UNCHANGED <<session, resolutions>>
           ELSE /\ session' = [session EXCEPT ![t] = s]
                /\ resolutions' = Resolved(u, s, "created", TRUE)
                /\ pc' = [pc EXCEPT ![t] = "store"]
                /\ UNCHANGED <<sent, response>>
        /\ UNCHANGED <<aggVars, auxVars, artVars, participants, now, activeSessions, sessionFiles, tuser,
                       hasMedia, sessionData, adkSid, lookup, sublog, aborted,
                       turns, storeFault, interrupted, replaced>>

\* await this.sessionManager.storeUserSession(userId, adkSessionId, {...})
\* and activeSessions.set (lines 1004-1012)
Store(t, writeOk) ==
    LET u == tuser[t]
    IN  /\ pc[t] = "store"
        /\ storeFault' = [storeFault EXCEPT ![u] = @ \/ ~writeOk]
        /\ AfterSession(t, storeUserSession(sessionFiles, u, session[t].sessionId,
                                            NoFile, FALSE, writeOk))
        /\ UNCHANGED <<aggVars, auxVars, artVars, participants, now, tuser, hasMedia, session, lookup,
                       sublog, response, sent, aborted, turns, resolutions,
                       interrupted, replaced>>

\* the media block without the return in its catch: after the error text the
\* handler goes on to sendToADK
MediaFallingThrough(t, downloadOk, listOk, writeOk) ==
    LET u == tuser[t]
        r == saveArtifact(objects, AppName, u, "a.png", session[t].sessionId,
                          "p1", listOk, writeOk)
    IN  /\ pc[t] = "media"
        /\ sent' = [sent EXCEPT ![t] = Inc(@, MaxSent)]
        /\ pc' = [pc EXCEPT ![t] = "submit"]
        /\ adkSid' = [adkSid EXCEPT ![t] = session[t].sessionId]
        /\ objects' = IF downloadOk /\ ~r.threw THEN r.objects ELSE objects
        /\ UNCHANGED <<aggVars, auxVars, returned, listFailed, saveThrew, overwritten,
                       adkWrites, participants, now, activeSessions, sessionFiles, tuser,
                       hasMedia, session, sessionData, lookup, sublog, aborted,
                       turns, resolutions, storeFault, interrupted, replaced, response>>

\* processMediaMessage(message, userId, session.sessionId) and the upload
\* notice (lines 1021-1050): the payload is downloaded and saved as an
\* artifact; any failure ends the turn with the media error text
Media(t, downloadOk, listOk, writeOk) ==
    LET u == tuser[t]
        r == saveArtifact(objects, AppName, u, "a.png", session[t].sessionId,
                          "p1", listOk, writeOk)
    IN  /\ pc[t] = "media"
        /\ sent' = [sent EXCEPT ![t] = Inc(@, MaxSent)]
        /\ IF downloadOk /\ ~r.threw
           THEN /\ objects' = r.objects
                /\ pc' = [pc EXCEPT ![t] = "submit"]
                /\ adkSid' = [adkSid EXCEPT ![t] = session[t].sessionId]
                /\ UNCHANGED response
           ELSE /\ response' = [response EXCEPT ![t] = MediaErrorText]
                /\ pc' = [pc EXCEPT ![t] = "done"]
                /\ UNCHANGED <<objects, adkSid>>
        /\ UNCHANGED <<aggVars, auxVars, returned, listFailed, saveThrew, overwritten,
                       adkWrites, participants, now, activeSessions, sessionFiles, tuser,
                       hasMedia, session, sessionData, lookup, sublog, aborted,
                       turns, resolutions, storeFault, interrupted, replaced>>

\* the status test of the recovery with every 5xx taken as a session fault
isSessionFaultAny5xx(status) == status >= 500 /\ status <= 599

\* response.status === 500
isSessionFault(status) == status = 500

\* sendToADK taking a timed-out request for a session fault as well
sendToADKResultRetryOnTimeout(o) ==
    IF o.code # ""
    THEN IF o.code = "ECONNREFUSED" THEN UnavailableText
         ELSE IF o.code = "ECONNABORTED" THEN NoResponse
         ELSE UnexpectedErrorText
    ELSE IF ~validateStatus(o.status) THEN HttpErrorText
    ELSE IF isSessionFault(o.status) THEN NoResponse
    ELSE IF o.status = 200 THEN AnswerText
    ELSE UnexpectedStatusText

\* the text sendToADK returns for one outcome of its axios.post, "" when it
\* goes on to create a new session instead (lines 1320-1367)
sendToADKResult(o) ==
    IF o.code # ""
    THEN IF o.code = "ECONNREFUSED" THEN UnavailableText
         ELSE IF o.code = "ECONNABORTED" THEN TimedOutText
         ELSE UnexpectedErrorText
    ELSE IF ~validateStatus(o.status) THEN HttpErrorText
    ELSE IF isSessionFault(o.status) THEN NoResponse
    ELSE IF o.status = 200 THEN AnswerText
    ELSE UnexpectedStatusText

\* sendToADK: await axios.post(`${ADK_URL}/run`, payload) (lines 1278-1367)
Submit(t, o) ==
    LET res == sendToADKResult(o)
    IN  /\ pc[t] = "submit"
        /\ sublog' = [sublog EXCEPT ![t] =
                         Log(@, [sessionId |-> adkSid[t], media |-> hasMedia[t],
                                 status |-> o.status, code |-> o.code])]
        /\ IF res = NoResponse
           THEN /\ pc' = [pc EXCEPT ![t] = "recreate"]
                /\ UNCHANGED response
           ELSE /\ pc' = [pc EXCEPT ![t] = "reply"]
                /\ response' = [response EXCEPT ![t] = res]
        /\ UNCHANGED <<aggVars, auxVars, artVars, participants, now, activeSessions, sessionFiles, tuser,
                       hasMedia, session, sessionData, adkSid, lookup, sent, aborted,
                       turns, resolutions, storeFault, interrupted, replaced>>

\* sendToADK after a 500: await this.createADKSession(userId), the cached
\* session object is given the new id and sendToADK calls itself
\* (lines 1326-1341); id = 0 is the null of a failed creation
Recreate(t, id) ==
    LET u == tuser[t]
    IN  /\ pc[t] = "recreate"
        /\ IF id = 0
           THEN /\ response' = [response EXCEPT ![t] = ServiceIssuesText]
                /\ pc' = [pc EXCEPT ![t] = "reply"]
                /\ UNCHANGED <<adkSid, activeSessions, session, replaced>>
           ELSE /\ adkSid' = [adkSid EXCEPT ![t] = id]
                /\ replaced' = [replaced EXCEPT ![u] = TRUE]
                /\ IF u \in DOMAIN activeSessions
                   THEN /\ activeSessions' = [activeSessions EXCEPT ![u].sessionId = id]
                        /\ session' = [session EXCEPT ![t].sessionId = id]
                   ELSE UNCHANGED <<activeSessions, session>>
                /\ pc' = [pc EXCEPT ![t] = "submit"]
                /\ UNCHANGED response
        /\ UNCHANGED <<aggVars, auxVars, artVars, participants, now, sessionFiles, tuser, hasMedia,
                       sessionData, lookup, sublog, sent, aborted, turns,
                       resolutions, storeFault, interrupted>>

\* the reply is handed to sendMessage (lines 1064-1082)
Reply(t) ==
    /\ pc[t] = "reply"
    /\ sent' = [sent EXCEPT ![t] = Inc(@, MaxSent)]
    /\ pc' = [pc EXCEPT ![t] = "done"]
    /\ UNCHANGED <<aggVars, auxVars, artVars, participants, now, activeSessions, sessionFiles, tuser,
                   hasMedia, session, sessionData, adkSid, lookup, sublog, response,
                   aborted, turns, resolutions, storeFault, interrupted, replaced>>

\* the locals of every turn in t are dropped
Dropped(f, ts, v) == [t \in Turns |-> IF t \in ts THEN v ELSE f[t]]

ForgetTurns(ts) ==
    /\ pc' = Dropped(pc, ts, "idle")
    /\ tuser' = Dropped(tuser, ts, NoUser)
    /\ hasMedia' = Dropped(hasMedia, ts, FALSE)
    /\ session' = Dropped(session, ts, NoSession)
    /\ sessionData' = Dropped(sessionData, ts, NoFile)
    /\ adkSid' = Dropped(adkSid, ts, 0)
    /\ lookup' = Dropped(lookup, ts, NoLookup)
    /\ sublog' = Dropped(sublog, ts, <<>>)
    /\ response' = Dropped(response, ts, NoResponse)
    /\ sent' = Dropped(sent, ts, 0)
    /\ aborted' = Dropped(aborted, ts, FALSE)

\* handleIncomingMessages returns
Finish(t) ==
    /\ pc[t] = "done"
    /\ ForgetTurns({t})
    /\ UNCHANGED <<aggVars, auxVars, artVars, participants, now, activeSessions, sessionFiles, turns,
                   resolutions, storeFault, interrupted, replaced>>

\* time passes
Tick ==
    /\ now < MaxTime
    /\ now' = now + 1
    /\ UNCHANGED <<aggVars, auxVars, artVars, participants, activeSessions, sessionFiles, pc, tuser,
                   hasMedia, session, sessionData, adkSid, lookup, sublog, response,
                   sent, aborted, turns, resolutions, storeFault, interrupted,
                   replaced>>

\* cleanupSessions deleting the session file of every entry it evicts as well
cleanupSessionsAndFiles(cache, files) ==
    [cache |-> [u \in {x \in DOMAIN cache :
                          ~Expired(cache[x].lastActivity, now)} |-> cache[u]],
     files |-> [f \in {g \in DOMAIN files :
                          \A x \in DOMAIN cache :
                              Expired(cache[x].lastActivity, now)
                                  => g # getSessionFilePath(x)} |-> files[f]]]

\* cleanupSessions deleting every entry, whatever its age
cleanupSessionsEvictingAll(cache, files) ==
    [cache |-> <<>>, files |-> files]

\* cleanupSessions: every cache entry older than the max age is deleted
cleanupSessions(cache, files) ==
    [cache |-> [u \in {x \in DOMAIN cache :
                          ~Expired(cache[x].lastActivity, now)} |-> cache[u]],
     files |-> files]

\* the setInterval callback of start()
Sweep ==
    LET r == cleanupSessions(activeSessions, sessionFiles)
    IN  /\ r.cache # activeSessions
        /\ activeSessions' = r.cache
        /\ sessionFiles' = r.files
        /\ UNCHANGED <<aggVars, auxVars, artVars, participants, now, pc, tuser, hasMedia, session,
                       sessionData, adkSid, lookup, sublog, response, sent, aborted,
                       turns, resolutions, storeFault, interrupted, replaced>>

\* the process is restarted: a new WhatsAppBot with an empty activeSessions,
\* and the handlers that were running are gone; the buckets are kept
Restart ==
    /\ activeSessions # <<>> \/ \E t \in Turns : pc[t] # "idle"
    /\ activeSessions' = <<>>
    /\ interrupted' = [u \in AllUsers |->
                          interrupted[u] \/ \E t \in Turns :
                              tuser[t] = u /\ pc[t] \notin {"idle", "done"}]
    /\ ForgetTurns(Turns)
    /\ UNCHANGED <<aggVars, auxVars, artVars, participants, now, sessionFiles, turns, resolutions,
                   storeFault, replaced>>

(***************************************************************************)
(* Response handling: handleStreamingResponse, handleNonStreamingResponse  *)
(***************************************************************************)
\* events of one streamed response
MaxEvents == 3
\* events of one non-streamed response body
MaxEnvEvents == 2

\* config.adk.timeout, in ticks of the stream clock
adkTimeout == 1

\* texts are sequences of pieces, so that appending and replacing differ
NoText == <<>>
He == <<"He">>
Hello == <<"Hello">>
HelloWorld == <<"Hello", " world">>

\* the fixed texts of handleStreamingResponse and handleNonStreamingResponse
StreamIncompleteText == <<"the response was incomplete">>
StreamTimedOutText == <<"Response timed out">>
HereIsImageText == <<"Here's your generated image:">>
UnexpectedFormatText == <<"the AI service returned an unexpected response format">>

\* part.inline_data of a part that has none, and of an image part
NoInline == [mime_type |-> "", data |-> <<>>]
Inline(d) == [mime_type |-> "image/png", data |-> <<d>>]

\* the parts of an event's content
TextPart(x) == [text |-> x, thoughtSignature |-> FALSE, inline_data |-> NoInline]
ThoughtPart(x) == [text |-> x, thoughtSignature |-> TRUE, inline_data |-> NoInline]
InlinePart(d) == [text |-> NoText, thoughtSignature |-> FALSE, inline_data |-> Inline(d)]

\* one decoded event; junk is a "data: " line that JSON.parse rejects
Event(partial, parts, eventResponse, artifactDelta) ==
    [junk |-> FALSE, partial |-> partial, parts |-> parts,
     response |-> eventResponse, artifactDelta |-> artifactDelta]
JunkLine ==
    [junk |-> TRUE, partial |-> FALSE, parts |-> <<>>,
     response |-> NoText, artifactDelta |-> <<>>]

\* the events a stream is made of; partial = FALSE also stands for an event
\* without the field (eventData.partial !== true)
StreamEvents ==
    {Event(TRUE, <<TextPart(He)>>, NoText, <<>>),
     Event(TRUE, <<TextPart(Hello)>>, NoText, <<>>),
     Event(FALSE, <<TextPart(HelloWorld)>>, NoText, <<>>),
     Event(FALSE, <<InlinePart("i1")>>, NoText, <<>>),
     Event(TRUE, <<ThoughtPart(He), InlinePart("i2")>>, NoText, <<>>),
     Event(FALSE, <<ThoughtPart(He), TextPart(Hello)>>, NoText, <<>>),
     Event(FALSE, <<>>, Hello, <<>>),
     JunkLine}

\* sequences of at most n elements of S
SeqsUpTo(S, n) == UNION {[1..k -> S] : k \in 0..n}

\* the promise returned by handleStreamingResponse; by, at and error record
\* which handler settled it, after how many processed lines, and the error
Pending == [state |-> "pending", value |-> NoText, by |-> "none", at |-> 0, error |-> ""]

\* a resolve that settles the promise again each time it is called
resolveAgain(p, v, by, at) ==
    [state |-> "resolved", value |-> v, by |-> by, at |-> at, error |-> ""]

\* resolve and reject of a promise: only the first call settles it
resolve(p, v, by, at) ==
    IF p.state = "pending"
    THEN [state |-> "resolved", value |-> v, by |-> by, at |-> at, error |-> ""]
    ELSE p
reject(p, code, at) ==
    IF p.state = "pending"
    THEN [state |-> "rejected", value |-> NoText, by |-> "error", at |-> at, error |-> code]
    ELSE p

\* eventData.content.parts.find(part => part.text && !part.thoughtSignature),
\* the text of the part found (NoText: none)
RECURSIVE findTextPart(_)
findTextPart(parts) ==
    IF parts = <<>> THEN NoText
    ELSE IF Head(parts).text # NoText /\ ~Head(parts).thoughtSignature
         THEN Head(parts).text
         ELSE findTextPart(Tail(parts))

\* the text kept when every fragment's text is appended to the text so far
accumulateAppending(full, text) == full \o text

\* fullResponse = textPart.text
accumulate(full, text) == text

\* the final test passing on any text, whatever the partial flag
isFinalIgnoringPartial(e, full) == full # NoText

\* the final test without its text condition
isFinalWithoutText(e, full) == e.partial # TRUE

\* eventData.partial !== true && fullResponse
isFinal(e, full) == e.partial # TRUE /\ full # NoText

\* the loop of the 'data' handler over the complete lines of one chunk; it
\* returns from the handler at the first line that resolves
RECURSIVE onData(_, _)
onData(st, lines) ==
    IF lines = <<>> THEN st
    ELSE LET e == Head(lines)
             seen == [st EXCEPT !.processed = Append(@, e)]
         IN  IF e.junk THEN onData(seen, Tail(lines))
             ELSE LET text == findTextPart(e.parts)
                      st1 == IF text # NoText
                             THEN [seen EXCEPT
                                      !.fullResponse = accumulate(@, text),
                                      !.hasStarted = TRUE]
                             ELSE seen
                  IN  IF isFinal(e, st1.fullResponse)
                      THEN [st1 EXCEPT !.promise =
                               resolve(@, st1.fullResponse, "final",
                                       Len(st1.processed))]
                      ELSE onData(st1, Tail(lines))

\* the 'end' handler resolving with whatever text there is
onEndNoFallback(full) == full

\* the value the 'end' handler resolves with
onEnd(full) == IF full # NoText THEN full ELSE StreamIncompleteText

\* the value the timeout callback resolves with
onTimeout(full) == IF full # NoText THEN full ELSE StreamTimedOutText

\* the 'error' handler handing out the text kept so far, as the timeout does
onErrorKeepingText(p, full, code, at) ==
    IF full # NoText THEN resolve(p, full, "error", at) ELSE reject(p, code, at)

\* the 'error' handler: reject(error)
onError(p, full, code, at) == reject(p, code, at)

\* the timer of the plain request timeout
streamTimeoutNotDoubled == adkTimeout

\* config.adk.timeout * 2
streamTimeout == adkTimeout * 2

\* error.code of a stream error
StreamErrorCodes == {"ECONNRESET", "ECONNABORTED"}

\* the catch block of sendToADK for an error without a response
sendToADKCatch(code) ==
    IF code = "ECONNREFUSED" THEN <<UnavailableText>>
    ELSE IF code = "ECONNABORTED" THEN <<TimedOutText>>
    ELSE <<UnexpectedErrorText>>

\* what sendToADK returns for the streamed response: the value the promise
\* resolved with, or the text of its catch block when the promise rejected
streamReply ==
    IF promise.state = "resolved" THEN promise.value
    ELSE IF promise.state = "rejected" THEN sendToADKCatch(promise.error)
    ELSE NoText

\* a streamed reply is a string: handleIncomingMessages sends it as one
\* text message and no image
streamReplyImages == <<>>

StreamInit ==
    /\ streamState = "none"
    /\ buffer = FALSE
    /\ fullResponse = NoText
    /\ hasStarted = FALSE
    /\ promise = Pending
    /\ elapsed = 0
    /\ timer = "idle"
    /\ delivered = <<>>
    /\ processed = <<>>

\* sendToADK got status 200 and hands the stream to handleStreamingResponse:
\* the handlers are registered and the timer is set
OpenStream ==
    /\ streamState = "none"
    /\ responseData.shape = "none"
    /\ streamState' = "open"
    /\ timer' = "armed"
    /\ UNCHANGED <<buffer, fullResponse, hasStarted, promise, elapsed, delivered,
                   processed, envVars, artVars, sesVars, auxVars>>

\* stream.on('data'): a chunk holding the complete lines `lines` (the first
\* one completes the line kept in the buffer, if any) and, when rest, the
\* beginning of a further line
Data(lines, rest) ==
    LET st == onData([fullResponse |-> fullResponse, hasStarted |-> hasStarted,
                      promise |-> promise, processed |-> processed], lines)
    IN  /\ streamState = "open"
        /\ Len(delivered) + Len(lines) <= MaxEvents
        /\ lines = <<>> => rest
        /\ buffer' = rest
        /\ fullResponse' = st.fullResponse
        /\ hasStarted' = st.hasStarted
        /\ promise' = st.promise
        /\ processed' = st.processed
        /\ delivered' = delivered \o lines
        /\ UNCHANGED <<streamState, elapsed, timer, envVars, artVars, sesVars, auxVars>>

\* stream.on('end')
End ==
    /\ streamState = "open"
    /\ streamState' = "ended"
    /\ promise' = resolve(promise, onEnd(fullResponse), "end", Len(processed))
    /\ UNCHANGED <<buffer, fullResponse, hasStarted, elapsed, timer, delivered,
                   processed, envVars, artVars, sesVars, auxVars>>

\* stream.on('error')
Error(code) ==
    /\ streamState = "open"
    /\ streamState' = "errored"
    /\ promise' = onError(promise, fullResponse, code, Len(processed))
    /\ UNCHANGED <<buffer, fullResponse, hasStarted, elapsed, timer, delivered,
                   processed, envVars, artVars, sesVars, auxVars>>

\* time passes while the timer is set
StreamTick ==
    /\ timer = "armed"
    /\ elapsed < streamTimeout
    /\ elapsed' = elapsed + 1
    /\ UNCHANGED <<streamState, buffer, fullResponse, hasStarted, promise, timer,
                   delivered, processed, envVars, artVars, sesVars, auxVars>>

\* the setTimeout callback; the timer is never cleared
Timeout ==
    /\ timer = "armed"
    /\ elapsed >= streamTimeout
    /\ timer' = "fired"
    /\ promise' = resolve(promise, onTimeout(fullResponse), "timeout", Len(processed))
    /\ UNCHANGED <<streamState, buffer, fullResponse, hasStarted, elapsed,
                   delivered, processed, envVars, artVars, sesVars, auxVars>>

DataStep ==
    /\ streamState = "open"
    /\ \E lines \in SeqsUpTo(StreamEvents, 2), rest \in BOOLEAN : Data(lines, rest)
ErrorStep == \E code \in StreamErrorCodes : Error(code)

StreamNext == OpenStream \/ DataStep \/ End \/ ErrorStep \/ StreamTick \/ Timeout

\* artifact names, in pieces: the base name and its dot-suffixes
chartPng == <<"chart", ".png">>
notesTxt == <<"notes", ".txt">>
chartPngJson == <<"chart", ".png", ".json">>
ArtifactNames == {chartPng, notesTxt, chartPngJson}

\* what loadArtifactBySession comes back with: the image data, null, or an
\* exception
LoadOutcomes == {"image", "null", "throws"}

\* the events of a non-streamed (array) response body
EnvelopeEvents ==
    {Event(FALSE, <<TextPart(He)>>, NoText, <<>>),
     Event(FALSE, <<TextPart(Hello)>>, NoText, <<>>),
     Event(TRUE, <<InlinePart("i1")>>, NoText, <<>>),
     Event(FALSE, <<InlinePart("i2")>>, NoText, <<>>),
     Event(FALSE, <<TextPart(Hello), InlinePart("i1")>>, NoText, <<>>),
     Event(FALSE, <<ThoughtPart(He)>>, NoText, <<>>),
     Event(FALSE, <<>>, Hello, <<>>),
     Event(FALSE, <<>>, NoText, <<chartPng>>),
     Event(FALSE, <<>>, NoText, <<notesTxt>>),
     Event(FALSE, <<>>, NoText, <<chartPngJson>>),
     Event(FALSE, <<TextPart(He)>>, NoText, <<notesTxt, chartPng>>)}

\* response.data: an object with .response, an object with .content.parts,
\* a string, an array of events, or anything else
NoData == [shape |-> "none", response |-> NoText, parts |-> <<>>, events |-> <<>>]
ArrayData(events) == [NoData EXCEPT !.shape = "array", !.events = events]
Envelopes ==
    {ArrayData(es) : es \in SeqsUpTo(EnvelopeEvents, MaxEnvEvents)}
    \cup {[NoData EXCEPT !.shape = "response", !.response = Hello],
          [NoData EXCEPT !.shape = "string", !.response = Hello],
          [NoData EXCEPT !.shape = "content", !.parts = <<TextPart(He), InlinePart("i1")>>],
          [NoData EXCEPT !.shape = "content", !.parts = <<InlinePart("i1")>>],
          [NoData EXCEPT !.shape = "other"]}

NoResult == [text |-> NoText, images |-> <<>>]

\* artifactName.includes(ext)
includes(name, ext) == \E i \in DOMAIN name : name[i] = ext

\* the test that an artifactDelta name is an image artifact
isImageArtifact(name) ==
    \/ includes(name, ".png") \/ includes(name, ".jpg")
    \/ includes(name, ".jpeg") \/ includes(name, ".webp")

\* for (const part of parts): responseText += part.text, else an inline
\* image with mime type and data is pushed to imageParts
RECURSIVE partsLoop(_, _)
partsLoop(acc, parts) ==
    IF parts = <<>> THEN acc
    ELSE LET part == Head(parts)
             next ==
                 IF part.text # NoText
                 THEN [acc EXCEPT !.responseText = @ \o part.text]
                 ELSE IF part.inline_data.mime_type # "" /\ part.inline_data.data # <<>>
                      THEN [acc EXCEPT !.imageParts =
                               Append(@, [mimeType |-> part.inline_data.mime_type,
                                          data |-> part.inline_data.data])]
                      ELSE acc
         IN  partsLoop(next, Tail(parts))

\* for (const artifactName in event.actions.artifactDelta): an image name
\* is fetched with loadArtifactBySession inside a try/catch and pushed to
\* artifactImages when data came back
RECURSIVE artifactLoop(_, _, _)
artifactLoop(acc, names, ld) ==
    IF names = <<>> THEN acc
    ELSE LET artifactName == Head(names)
             next ==
                 IF isImageArtifact(artifactName) /\ ld[artifactName] = "image"
                 THEN [acc EXCEPT !.artifactImages =
                          Append(@, [mimeType |-> "image/png", data |-> artifactName])]
                 ELSE acc
         IN  artifactLoop(next, Tail(names), ld)

\* for (const event of data)
RECURSIVE eventsLoop(_, _, _)
eventsLoop(acc, events, ld) ==
    IF events = <<>> THEN acc
    ELSE LET event == Head(events)
             a1 == IF event.parts # <<>> THEN partsLoop(acc, event.parts)
                   ELSE IF event.response # NoText
                        THEN [acc EXCEPT !.responseText = event.response]
                        ELSE acc
             a2 == artifactLoop(a1, event.artifactDelta, ld)
         IN  eventsLoop(a2, Tail(events), ld)

\* handleNonStreamingResponse returning the text found, without the text for
\* a body in which nothing was found
handleNonStreamingResponseNoFallback(d, ld) ==
    LET none == [responseText |-> NoText, imageParts |-> <<>>, artifactImages |-> <<>>]
        acc == IF d.shape = "response" THEN [none EXCEPT !.responseText = d.response]
               ELSE IF d.shape = "content" THEN partsLoop(none, d.parts)
               ELSE IF d.shape = "string" THEN [none EXCEPT !.responseText = d.response]
               ELSE IF d.shape = "array" THEN eventsLoop(none, d.events, ld)
               ELSE none
    IN  [text |-> acc.responseText, images |-> acc.imageParts \o acc.artifactImages]

\* handleNonStreamingResponse(data, jid, sessionId): text and images of the
\* response body
handleNonStreamingResponse(d, ld) ==
    LET none == [responseText |-> NoText, imageParts |-> <<>>, artifactImages |-> <<>>]
        acc == IF d.shape = "response" THEN [none EXCEPT !.responseText = d.response]
               ELSE IF d.shape = "content" THEN partsLoop(none, d.parts)
               ELSE IF d.shape = "string" THEN [none EXCEPT !.responseText = d.response]
               ELSE IF d.shape = "array" THEN eventsLoop(none, d.events, ld)
               ELSE none
        allImages == acc.imageParts \o acc.artifactImages
    IN  IF acc.responseText # NoText \/ allImages # <<>>
        THEN [text |-> IF acc.responseText # NoText THEN acc.responseText
                       ELSE HereIsImageText,
              images |-> allImages]
        ELSE [text |-> UnexpectedFormatText, images |-> <<>>]

EnvelopeInit ==
    /\ responseData = NoData
    /\ loads = [n \in ArtifactNames |-> "null"]
    /\ result = NoResult

\* sendToADK got status 200 from /run and hands response.data to
\* handleNonStreamingResponse; ld is what each artifact load comes back with
NonStreamingResponse(d, ld) ==
    /\ streamState = "none"
    /\ responseData.shape = "none"
    /\ responseData' = d
    /\ loads' = ld
    /\ result' = handleNonStreamingResponse(d, ld)
    /\ UNCHANGED <<strVars, artVars, sesVars, auxVars>>

NonStreamingStep ==
    /\ streamState = "none" /\ responseData.shape = "none"
    /\ \E d \in Envelopes, ld \in [ArtifactNames -> LoadOutcomes] :
          NonStreamingResponse(d, ld)

ResponseNext == StreamNext \/ NonStreamingStep

(***************************************************************************)
(* Outbound text: splitMessage                                             *)
(***************************************************************************)
MaxText == 5
MaxChunk == 3

\* the characters a text is made of: a letter, a blank, a full stop
TextChars == {"a", " ", "."}
Punctuation == {".", "!", "?"}
Whitespace == {" ", "\n", "\t"}

\* the length of the longest prefix of s whose characters are in class
RECURSIVE run(_, _)
run(s, class) ==
    IF s # <<>> /\ Head(s) \in class THEN 1 + run(Tail(s), class) ELSE 0

\* s.substring(0, n) and s.substring(n)
take(s, n) == SubSeq(s, 1, IF n < Len(s) THEN n ELSE Len(s))
drop(s, n) == SubSeq(s, (IF n < Len(s) THEN n ELSE Len(s)) + 1, Len(s))

\* s.trim()
RECURSIVE trimStart(_)
trimStart(s) ==
    IF s # <<>> /\ Head(s) \in Whitespace THEN trimStart(Tail(s)) ELSE s
RECURSIVE trimEnd(_)
trimEnd(s) ==
    IF s # <<>> /\ s[Len(s)] \in Whitespace THEN trimEnd(SubSeq(s, 1, Len(s) - 1)) ELSE s
trim(s) == trimEnd(trimStart(s))

\* text.split(/([.!?]+\s*)/): the pieces between the matches alternate with
\* the matches themselves, a piece may be empty (line 1637)
RECURSIVE splitSentences(_, _, _)
splitSentences(rest, piece, acc) ==
    IF rest = <<>> THEN Append(acc, piece)
    ELSE IF Head(rest) \in Punctuation
    THEN LET p == run(rest, Punctuation)
             w == run(drop(rest, p), Whitespace)
         IN  splitSentences(drop(rest, p + w), <<>>,
                            acc \o <<piece, take(rest, p + w)>>)
    ELSE splitSentences(Tail(rest), Append(piece, Head(rest)), acc)

\* sentence.split(' ') (line 1652)
RECURSIVE splitWords(_, _, _)
splitWords(rest, piece, acc) ==
    IF rest = <<>> THEN Append(acc, piece)
    ELSE IF Head(rest) = " " THEN splitWords(Tail(rest), <<>>, Append(acc, piece))
    ELSE splitWords(Tail(rest), Append(piece, Head(rest)), acc)

\* for (const word of words) { ... } (lines 1655-1668)
RECURSIVE wordsLoop(_, _, _, _)
wordsLoop(words, chunks, wordChunk, maxLength) ==
    IF words = <<>> THEN [chunks |-> chunks, wordChunk |-> wordChunk]
    ELSE LET word == Head(words)
         IN  IF Len(wordChunk) + 1 + Len(word) <= maxLength
             THEN wordsLoop(Tail(words), chunks,
                            wordChunk \o (IF wordChunk # <<>> THEN <<" ">> ELSE <<>>) \o word,
                            maxLength)
             ELSE IF wordChunk # <<>>
             THEN wordsLoop(Tail(words), Append(chunks, wordChunk), word, maxLength)
             ELSE wordsLoop(Tail(words), Append(chunks, take(word, maxLength)),
                            drop(word, maxLength), maxLength)

\* for (let i = 0; i < sentences.length; i++) { ... } (lines 1639-1676)
RECURSIVE sentencesLoop(_, _, _, _)
sentencesLoop(sentences, chunks, currentChunk, maxLength) ==
    IF sentences = <<>> THEN [chunks |-> chunks, currentChunk |-> currentChunk]
    ELSE LET sentence == Head(sentences)
             flushed == IF currentChunk # <<>> THEN Append(chunks, trim(currentChunk))
                        ELSE chunks
             w == wordsLoop(splitWords(sentence, <<>>, <<>>), flushed, <<>>, maxLength)
         IN  IF Len(currentChunk) + Len(sentence) <= maxLength
             THEN sentencesLoop(Tail(sentences), chunks, currentChunk \o sentence, maxLength)
             ELSE IF Len(sentence) > maxLength
             THEN sentencesLoop(Tail(sentences), w.chunks, w.wordChunk, maxLength)
             ELSE sentencesLoop(Tail(sentences), flushed, sentence, maxLength)

\* splitMessage(text, maxLength) (lines 1628-1684)
splitMessage(text, maxLength) ==
    IF Len(text) <= maxLength THEN <<text>>
    ELSE LET r == sentencesLoop(splitSentences(text, <<>>, <<>>), <<>>, <<>>, maxLength)
             chunks == IF r.currentChunk # <<>>
                       THEN Append(r.chunks, trim(r.currentChunk))
                       ELSE r.chunks
         IN  SelectSeq(chunks, LAMBDA chunk : Len(chunk) > 0)

NoDelivery == [done |-> FALSE, text |-> <<>>, maxLength |-> 1, chunks |-> <<>>]

\* sendMessage for a text longer than maxLength: the chunks of splitMessage
\* are what it goes on to send (lines 1587-1599)
SplitMessage(text, maxLength) ==
    /\ delivery' = [done |-> TRUE, text |-> text, maxLength |-> maxLength,
                    chunks |-> splitMessage(text, maxLength)]
    /\ UNCHANGED <<artVars, sesVars, aggVars, readOp, attempt, mediaResult, mediaSent,
                   mediaParts, upsert, endpoint>>

(***************************************************************************)
(* Inbound events: the entry of handleIncomingMessages                     *)
(***************************************************************************)
MaxBatch == 2

\* a message of an event: whether it has a content (message.message), a text,
\* an attachment, and the sender id (message.key.remoteJid, "" when missing)
InboundMessages ==
    {m \in [hasContent : BOOLEAN, hasText : BOOLEAN, hasMedia : BOOLEAN,
            remoteJid : {"", "u1"}] :
        ~m.hasContent => (~m.hasText /\ ~m.hasMedia)}

\* the events: m.messages holds one message or more
Batches == UNION {[1..k -> InboundMessages] : k \in 1..MaxBatch}

\* the tests a message passes before its session is looked up (lines 931-963)
accepted(message) ==
    /\ message.hasContent
    /\ message.hasText \/ message.hasMedia
    /\ message.remoteJid # ""

\* handleIncomingMessages(m): const message = m.messages[0], the positions
\* of the messages of the event that go on to the session lookup
\* (lines 915-967)
handleIncomingMessages(messages) ==
    IF accepted(messages[1]) THEN {1} ELSE {}

NoUpsert == [done |-> FALSE, messages |-> <<>>, dispatched |-> {}]

\* one 'messages.upsert' event is delivered to the handler
HandleUpsert(messages) ==
    /\ upsert' = [done |-> TRUE, messages |-> messages,
                  dispatched |-> handleIncomingMessages(messages)]
    /\ UNCHANGED <<artVars, sesVars, aggVars, readOp, attempt, mediaResult, mediaSent,
                   mediaParts, delivery, endpoint>>

(***************************************************************************)
(* Endpoint selection: test-endpoints.js                                   *)
(***************************************************************************)
\* process.env.PRODUCTION_ADK_URL || '...' and process.env.STAGING_ADK_URL ||
\* '...' (lines 7-8): the default, or a URL of the environment, which may end
\* in a slash
ProductionUrls == {[host |-> "my-agentic-rag-production", slash |-> FALSE],
                   [host |-> "production.env", slash |-> FALSE],
                   [host |-> "production.env", slash |-> TRUE]}
StagingUrls == {[host |-> "my-agentic-rag-454188184539", slash |-> FALSE],
                [host |-> "staging.env", slash |-> FALSE],
                [host |-> "staging.env", slash |-> TRUE]}
NoUrl == [host |-> "", slash |-> FALSE]

\* `${url.replace(/\/$/, '')}/health` (line 27)
healthUrl(url) == [host |-> url.host, path |-> "/health"]

\* what the fetch of a health URL comes to: a response with a status and a
\* body that parses as JSON or not, an abort by the timer, a network error
FetchOutcomes ==
    [kind : {"response"}, status : {200, 204, 404, 503}, json : BOOLEAN]
    \cup {[kind |-> k, status |-> 0, json |-> FALSE] : k \in {"aborted", "failed"}}

\* response.ok
ok(status) == status >= 200 /\ status <= 299

\* checkEndpointHealth(url) (lines 21-52): true when the response is ok and
\* response.json() does not reject, false in every other case
checkEndpointHealth(o) == o.kind = "response" /\ ok(o.status) /\ o.json

Unloaded == [pc |-> "load", production |-> NoUrl, staging |-> NoUrl,
             probes |-> <<>>, returned |-> NoUrl]

\* the module is loaded: the two URLs are read (lines 7-8)
LoadEndpoints(production, staging) ==
    /\ endpoint.pc = "load"
    /\ endpoint' = [endpoint EXCEPT !.pc = "production", !.production = production,
                                    !.staging = staging]
    /\ UNCHANGED <<artVars, sesVars, aggVars, readOp, attempt, mediaResult, mediaSent,
                   mediaParts, delivery, upsert>>

Probe(url, o) == [url |-> healthUrl(url), outcome |-> o, healthy |-> checkEndpointHealth(o)]

\* getActiveAdkEndpoint, first await (lines 62-65)
ProbeProduction(o) ==
    /\ endpoint.pc = "production"
    /\ endpoint' = [endpoint EXCEPT
                       !.probes = Append(@, Probe(endpoint.production, o)),
                       !.pc = IF checkEndpointHealth(o) THEN "done" ELSE "staging",
                       !.returned = IF checkEndpointHealth(o) THEN endpoint.production
                                    ELSE NoUrl]
    /\ UNCHANGED <<artVars, sesVars, aggVars, readOp, attempt, mediaResult, mediaSent,
                   mediaParts, delivery, upsert>>

\* the fallback returning the staging URL whatever its health check said
ProbeStagingUnchecked(o) ==
    /\ endpoint.pc = "staging"
    /\ endpoint' = [endpoint EXCEPT
                       !.probes = Append(@, Probe(endpoint.staging, o)),
                       !.pc = "done",
                       !.returned = endpoint.staging]
    /\ UNCHANGED <<artVars, sesVars, aggVars, readOp, attempt, mediaResult, mediaSent,
                   mediaParts, delivery, upsert>>

\* getActiveAdkEndpoint, second await and the default (lines 68-76)
ProbeStaging(o) ==
    /\ endpoint.pc = "staging"
    /\ endpoint' = [endpoint EXCEPT
                       !.probes = Append(@, Probe(endpoint.staging, o)),
                       !.pc = "done",
                       !.returned = IF checkEndpointHealth(o) THEN endpoint.staging
                                    ELSE endpoint.production]
    /\ UNCHANGED <<artVars, sesVars, aggVars, readOp, attempt, mediaResult, mediaSent,
                   mediaParts, delivery, upsert>>

OutInit ==
    /\ delivery = NoDelivery
    /\ upsert = NoUpsert
    /\ endpoint = Unloaded

vars == <<artVars, sesVars, aggVars, auxVars>>

AuxInit == ReadInit /\ FallbackInit /\ MediaInit /\ OutInit

Init ==
    /\ ArtInit
    /\ TurnInit
    /\ participants = {U1}
    /\ StreamInit
    /\ EnvelopeInit
    /\ AuxInit

StartStep == \E t \in Turns, u \in AllUsers, media \in BOOLEAN : StartTurn(t, u, media)
LookupStep == \E t \in Turns, readOk \in BOOLEAN : Lookup(t, readOk)
ActivityReadStep == \E t \in Turns, readOk \in BOOLEAN : ActivityRead(t, readOk)
ActivityWriteStep == \E t \in Turns, writeOk \in BOOLEAN : ActivityWrite(t, writeOk)
CreateStep == \E t \in Turns : \E id \in FreshIds(tuser[t]) \cup {0} : Create(t, id)
StoreStep == \E t \in Turns, writeOk \in BOOLEAN : Store(t, writeOk)
MediaStep ==
    \E t \in Turns, downloadOk \in BOOLEAN, listOk \in BOOLEAN, writeOk \in BOOLEAN :
        Media(t, downloadOk, listOk, writeOk)
SubmitStep == \E t \in Turns, o \in Outcomes : Submit(t, o)
RecreateStep == \E t \in Turns : \E id \in FreshIds(tuser[t]) \cup {0} : Recreate(t, id)
ReplyStep == \E t \in Turns : Reply(t)
FinishStep == \E t \in Turns : Finish(t)

\* the steps by which a running handler goes on
TurnStep ==
    \/ LookupStep
    \/ ActivityReadStep
    \/ ActivityWriteStep
    \/ CreateStep
    \/ StoreStep
    \/ MediaStep
    \/ SubmitStep
    \/ RecreateStep
    \/ ReplyStep
    \/ FinishStep

Next ==
    \/ StartStep
    \/ TurnStep
    \/ Tick
    \/ Sweep
    \/ Restart

Spec == Init /\ [][Next]_vars

\* the event loop resumes every handler whose await has settled, and every
\* network call settles (each carries a timeout)
FairSpec == Spec /\ WF_vars(TurnStep)

SaveStep ==
    \E k \in ArtKeys, d \in Payloads, listOk \in BOOLEAN, writeOk \in BOOLEAN :
        SaveCall(k, d, listOk, writeOk)

AdkWriteStep ==
    \E k \in ArtKeys, n \in {0}, d \in Payloads : adkRuntimeWrite(k, n, d)

ArtifactNext == SaveStep \/ AdkWriteStep

ArtifactSpec == Init /\ [][ArtifactNext]_vars

\* one backend response is handled, streamed or not
ResponseSpec == Init /\ [][ResponseNext]_vars

FlatWriteStep ==
    \E u \in ArtUsers, f \in Filenames, d \in Payloads : flatWrite(u, f, 1, d)

\* the bucket is written, up to MaxObjects objects, until it is read
Writable == readOp.op = "none" /\ Cardinality(DOMAIN objects) < MaxObjects
StoreSave == Writable /\ SaveStep
StoreAdkWrite == Writable /\ AdkWriteStep
StoreFlatWrite == Writable /\ FlatWriteStep

LoadArtifactStep ==
    /\ readOp.op = "none"
    /\ \E k \in ArtKeys, version \in 0..2, listOk \in BOOLEAN, readOk \in BOOLEAN :
          LoadArtifact(k, version, listOk, readOk)

LoadArtifactBySessionStep ==
    /\ readOp.op = "none"
    /\ \E k \in ArtKeys, version \in 0..1, connected \in BOOLEAN, readOk \in BOOLEAN :
          LoadArtifactBySession(k, version, connected, readOk)

ListArtifactKeysStep ==
    /\ readOp.op = "none"
    /\ \E u \in ArtUsers, listOk \in BOOLEAN : ListArtifactKeys(u, listOk)

StoreNext ==
    \/ StoreSave
    \/ StoreAdkWrite
    \/ StoreFlatWrite
    \/ LoadArtifactStep
    \/ LoadArtifactBySessionStep
    \/ ListArtifactKeysStep

\* the artifact store is written and then read
StoreSpec == Init /\ [][StoreNext]_vars

\* the stored name followed by what a caller may have typed after it
InputFilenames == {ReportPdf \o s : s \in SeqsUpTo(SuffixChars, MaxSuffix)}
StoredNames == {ReportPdf, ReportPdf \o <<" ", "v", "3">>, ReportPdf \o <<"_", "v", "3">>}

UploadArtifactToFalStep ==
    /\ ~attempt.done
    /\ \E filename \in InputFilenames, stored \in SUBSET StoredNames, storeOk \in BOOLEAN :
           UploadArtifactToFal(filename, stored, storeOk)

FallbackNext == UploadArtifactToFalStep

\* load by filename with version fallback, on inputs of the bounded sets
FallbackSpec == Init /\ [][FallbackNext]_vars

DeclaredMimes == {"", XlsxMime, DocxMime, "image/png", "application/pdf"}
DetectedMimes == {"", XlsxMime, "image/png"}
DeclaredNames == {<<>>} \cup (SeqsUpTo(NamePieces, MaxName) \ {<<>>})

HandleMediaStep ==
    /\ ~mediaResult.done
    /\ \E mimetype \in DeclaredMimes, fileName \in DeclaredNames, detected \in DetectedMimes,
          sessionId \in ArtSessions,
          downloadOk \in BOOLEAN, convertOk \in BOOLEAN, listOk \in BOOLEAN,
          writeOk \in BOOLEAN :
           HandleMedia(MediaMessage(mimetype, fileName, detected), "u1", sessionId,
                       downloadOk, convertOk, listOk, writeOk)

MediaNext == HandleMediaStep

\* one message with an attachment, of the bounded sets, is handled
MediaSpec == Init /\ [][MediaNext]_vars

\* two users write to the bot, the session bucket and the backend answer
DirectoryInit ==
    /\ ArtInit
    /\ TurnInit
    /\ participants = {U3, U4}
    /\ StreamInit
    /\ EnvelopeInit
    /\ AuxInit

\* the two users send MaxTurns + 1 messages between them
DirectoryStart ==
    /\ turns[U3] + turns[U4] <= MaxTurns
    /\ \E t \in Turns, u \in AllUsers : StartTurn(t, u, FALSE)
DirectoryLookup == \E t \in Turns : Lookup(t, TRUE)
DirectoryActivityRead == \E t \in Turns : ActivityRead(t, TRUE)
DirectoryActivityWrite == \E t \in Turns : ActivityWrite(t, TRUE)
DirectoryStore == \E t \in Turns : Store(t, TRUE)
DirectorySubmit == \E t \in Turns : Submit(t, [status |-> 200, code |-> ""])

DirectoryNext ==
    \/ DirectoryStart
    \/ DirectoryLookup
    \/ DirectoryActivityRead
    \/ DirectoryActivityWrite
    \/ CreateStep
    \/ DirectoryStore
    \/ DirectorySubmit
    \/ ReplyStep
    \/ FinishStep
    \/ Tick
    \/ Sweep

DirectorySpec == DirectoryInit /\ [][DirectoryNext]_vars

(***************************************************************************)
(* Claims about the artifact store                                         *)
(***************************************************************************)

\* C1: N saveArtifact calls to one logical key with no store failure return
\* the versions 1, 2, ..., N in call order.
C1_VersionsOneToN ==
    \A k \in ArtKeys :
        (~listFailed[k] /\ ~saveThrew[k]) =>
            returned[k] = [i \in 1..Len(returned[k]) |-> i]

\* the bound of saves is reached on a key whose store never failed
C1_Witness ==
    \E k \in ArtKeys :
        /\ ~listFailed[k] /\ ~saveThrew[k]
        /\ Len(returned[k]) = MaxSaves

\* C2: over non-concurrent saves to one key, also when a version listing
\* fails, every returned version is strictly greater than all versions
\* returned before for that key, and no existing object is overwritten.
C2_StrictlyIncreasingNoOverwrite ==
    /\ \A k \in ArtKeys :
          \A i, j \in 1..Len(returned[k]) : i < j => returned[k][i] < returned[k][j]
    /\ ~overwritten

(***************************************************************************)
(* Claims about the turn dispatcher and the session directory              *)
(***************************************************************************)
Last(lg) == lg[Len(lg)]

\* C3: in a turn whose first submission and its retry both return a session
\* fault there are exactly two submissions and one session replacement, and
\* the turn ends with the service-unavailable reply; no third submission.
C3_TwoFaultsEndTheTurn ==
    \A t \in Turns :
        (/\ Len(sublog[t]) >= 2
         /\ isSessionFault(sublog[t][1].status)
         /\ isSessionFault(sublog[t][2].status))
        => /\ Len(sublog[t]) = 2
           /\ adkSid[t] = sublog[t][2].sessionId
           /\ pc[t] \in {"reply", "done"} => response[t] = ServiceIssuesText

\* C4: every turn terminates: whatever the backend and the store answer,
\* sendToADK eventually returns a reply for the turn.
C4_SendToADKReturns ==
    \A t \in Turns : (pc[t] = "submit") ~> (pc[t] \in {"reply", "done", "idle"})

\* C5 as stated: whenever the first submission of a turn returns a status in
\* 500..599, one new backend session is created and the same text and parts
\* are resubmitted once under the new session identifier.
C5_Any5xxIsRecovered ==
    \A t \in Turns :
        (/\ sublog[t] # <<>>
         /\ sublog[t][1].code = ""
         /\ sublog[t][1].status >= 500 /\ sublog[t][1].status <= 599)
        => \/ pc[t] = "recreate" /\ Len(sublog[t]) = 1
           \/ /\ adkSid[t] # sublog[t][1].sessionId
              /\ Len(sublog[t]) >= 2 =>
                    /\ sublog[t][2].sessionId # sublog[t][1].sessionId
                    /\ sublog[t][2].media = sublog[t][1].media

\* C5 amended: when the first submission returns status 500 a session
\* creation is attempted; if it succeeds the same text and parts are
\* resubmitted under the new identifier, if it fails the turn ends with the
\* service-issues reply.  Any other 5xx status is answered directly: no
\* session is created and nothing is resubmitted.
C5_Status500IsRecovered ==
    \A t \in Turns :
        (sublog[t] # <<>> /\ sublog[t][1].code = "")
        => /\ sublog[t][1].status = 500 =>
                \/ pc[t] = "recreate" /\ Len(sublog[t]) = 1
                \/ /\ Len(sublog[t]) = 1
                   /\ pc[t] \in {"reply", "done"}
                   /\ response[t] = ServiceIssuesText
                   /\ adkSid[t] = sublog[t][1].sessionId
                \/ /\ adkSid[t] # sublog[t][1].sessionId
                   /\ Len(sublog[t]) >= 2 =>
                         /\ sublog[t][2].sessionId # sublog[t][1].sessionId
                         /\ sublog[t][2].media = sublog[t][1].media
           /\ (sublog[t][1].status > 500 /\ sublog[t][1].status <= 599) =>
                /\ Len(sublog[t]) = 1
                /\ pc[t] \in {"reply", "done"}
                /\ response[t] = UnexpectedStatusText
                /\ adkSid[t] = sublog[t][1].sessionId

\* a first submission answered 500 was resubmitted under a new identifier
C5_Witness ==
    \E t \in Turns :
        /\ Len(sublog[t]) >= 2
        /\ sublog[t][1].status = 500
        /\ sublog[t][2].sessionId # sublog[t][1].sessionId
        /\ sublog[t][2].media = sublog[t][1].media

\* a submission that failed without being a session fault: a timed-out or
\* refused request, or an error status outside 500..599
DirectFailure(e) ==
    \/ e.code \in {"ECONNABORTED", "ECONNREFUSED"}
    \/ e.code = "" /\ e.status # 200 /\ ~(e.status >= 500 /\ e.status <= 599)

DirectFailureText(e) ==
    IF e.code = "ECONNABORTED" THEN TimedOutText
    ELSE IF e.code = "ECONNREFUSED" THEN UnavailableText
    ELSE IF validateStatus(e.status) THEN UnexpectedStatusText
    ELSE HttpErrorText

\* C6: a submission that fails by timeout, by connection refused or with a
\* non-5xx error status creates no session, is not followed by another
\* submission, leaves the session mapping unchanged and its failure text is
\* the reply of the turn.
C6_DirectFailuresAreNotRetried ==
    [][\A t \in Turns :
          /\ (/\ pc[t] = "submit"
              /\ pc'[t] \in {"reply", "recreate", "submit", "done"}
              /\ sublog'[t] # sublog[t]
              /\ DirectFailure(Last(sublog'[t])))
             => /\ pc'[t] = "reply"
                /\ response'[t] = DirectFailureText(Last(sublog'[t]))
                /\ adkSid'[t] = adkSid[t]
                /\ activeSessions' = activeSessions
                /\ sessionFiles' = sessionFiles
          /\ (pc[t] = "reply" /\ DirectFailure(Last(sublog[t]))
                              /\ response[t] # ServiceIssuesText)
             => /\ pc'[t] \in {"reply", "done", "idle"}
                /\ pc'[t] # "idle" => response'[t] = response[t]
                /\ pc'[t] # "idle" => sublog'[t] = sublog[t]]_vars

\* the first submission of a turn timed out and the turn is about to reply
C6_Witness ==
    \E t \in Turns :
        /\ pc[t] = "reply"
        /\ Len(sublog[t]) = 1
        /\ sublog[t][1].code = "ECONNABORTED"
        /\ response[t] = TimedOutText

\* C7: after a fault recovery created a new backendSessionId for a user, the
\* durable mapping of that user holds the new identifier.
C7_DurableHoldsRecoveredId ==
    \A t \in Turns :
        (pc[t] = "done" /\ Len(sublog[t]) >= 2)
        => FileSid(tuser[t]) = adkSid[t]

NotRecovered(t) ==
    /\ pc[t] # "recreate"
    /\ sublog[t] # <<>> => adkSid[t] = sublog[t][1].sessionId

\* C9 as stated: once the mapping is in durable storage, a message handled
\* with the cache cleared resolves to the stored backendSessionId with
\* isReturningUser = true and creates no backend session.
C9_StoredMappingIsRestored ==
    \A t \in Turns :
        (lookup[t].how \in {"found", "absent", "failed"} /\ lookup[t].fileSid # 0)
        => /\ lookup[t].how = "found"
           /\ pc[t] \notin {"create", "store"}
           /\ session[t].isReturningUser
           /\ NotRecovered(t) => session[t].sessionId = lookup[t].fileSid

\* C9 amended: the same, provided the read of the stored mapping succeeds.
C9_StoredMappingIsRestoredWhenRead ==
    \A t \in Turns :
        (lookup[t].how \in {"found", "absent"} /\ lookup[t].fileSid # 0)
        => /\ lookup[t].how = "found"
           /\ pc[t] \notin {"create", "store"}
           /\ session[t].isReturningUser
           /\ NotRecovered(t) => session[t].sessionId = lookup[t].fileSid
           /\ (NotRecovered(t) /\ sublog[t] # <<>>) =>
                 sublog[t][1].sessionId = lookup[t].fileSid

\* a turn that found the cache empty submitted under the stored identifier
C9_Witness ==
    \E t \in Turns :
        /\ lookup[t].how = "found"
        /\ lookup[t].fileSid # 0
        /\ tuser[t] \notin DOMAIN activeSessions \/ activeSessions[tuser[t]].isReturningUser
        /\ sublog[t] # <<>>
        /\ sublog[t][1].sessionId = lookup[t].fileSid

\* C10: a failed read of the session mapping is taken as "absent": the turn
\* goes on to create a backend session, is answered, and is never aborted
\* by the store failure.
C10_FailedLookupFailsOpen ==
    \A t \in Turns :
        lookup[t].how = "failed"
        => /\ ~aborted[t]
           /\ pc[t] \in {"create", "store", "media", "submit", "recreate", "reply", "done"}
           /\ pc[t] \in {"store", "media", "submit", "recreate", "reply"} =>
                 /\ session[t].sessionId # 0
                 /\ ~session[t].isReturningUser
           /\ pc[t] = "done" => (sent[t] >= 1 /\ response[t] # NoResponse)

\* a turn whose lookup failed was answered by the backend
C10_Witness ==
    \E t \in Turns :
        /\ lookup[t].how = "failed"
        /\ pc[t] = "done"
        /\ sent[t] >= 1
        /\ response[t] = AnswerText

C12_CreationFailureEndsTheTurn ==
    [][\A t \in Turns :
          /\ (pc[t] = "create" /\ pc'[t] \notin {"create", "idle"}
                               /\ session'[t].sessionId = 0)
             => /\ pc'[t] = "done"
                /\ response'[t] = CreateFailedText
                /\ sent'[t] = 1
                /\ sublog'[t] = <<>>
                /\ adkSid'[t] = 0
                /\ activeSessions' = activeSessions
                /\ sessionFiles' = sessionFiles
                /\ lookup[t].how = "absent" =>
                      /\ tuser[t] \notin DOMAIN activeSessions'
                      /\ FileSid(tuser[t])' = 0
          /\ (pc[t] = "done" /\ response[t] = CreateFailedText)
             => /\ pc'[t] \in {"done", "idle"}
                /\ pc'[t] = "done" =>
                      /\ sent'[t] = sent[t]
                      /\ sublog'[t] = <<>>
                      /\ DOMAIN activeSessions' \subseteq DOMAIN activeSessions
                      /\ sessionFiles' = sessionFiles]_vars

\* the creation for a user without any mapping failed and the turn ended
\* with the one message
C12_Witness ==
    \E t \in Turns :
        /\ pc[t] = "done"
        /\ response[t] = CreateFailedText
        /\ lookup[t].how = "absent"
        /\ sent[t] = 1
        /\ sublog[t] = <<>>
        /\ FileSid(tuser[t]) = 0
        /\ tuser[t] \notin DOMAIN activeSessions

(***************************************************************************)
(* Claims about the handling of backend responses                          *)
(***************************************************************************)
\* the text a fragment carries: that of its first text part which is not a
\* thought
CarriedText(e) ==
    IF e.junk THEN NoText
    ELSE LET idx == {i \in DOMAIN e.parts :
                        e.parts[i].text # NoText /\ ~e.parts[i].thoughtSignature}
         IN  IF idx = {} THEN NoText
             ELSE e.parts[CHOOSE i \in idx : \A j \in idx : i <= j].text

\* the text of the most recent fragment of a log that carried text
LastCarried(log) ==
    LET idx == {i \in DOMAIN log : CarriedText(log[i]) # NoText}
    IN  IF idx = {} THEN NoText
        ELSE CarriedText(log[CHOOSE i \in idx : \A j \in idx : i >= j])

Upto(log, n) == SubSeq(log, 1, n)

\* a decoded fragment whose partial flag is not true
FinalFragment(e) == ~e.junk /\ e.partial # TRUE

\* the fragments of the spec's example: He, Hello, Hello world (final)
ExampleFragments ==
    <<Event(TRUE, <<TextPart(He)>>, NoText, <<>>),
      Event(TRUE, <<TextPart(Hello)>>, NoText, <<>>),
      Event(FALSE, <<TextPart(HelloWorld)>>, NoText, <<>>)>>

\* C13: after each fragment the accumulated text is the text of the most
\* recent fragment that carried text, never a concatenation, and a stream
\* finalizes with that text; the fragments He, Hello, Hello world (final)
\* finalize to exactly "Hello world".
C13_LatestTextReplaces ==
    /\ fullResponse = LastCarried(processed)
    /\ promise.by = "final" =>
          promise.value = LastCarried(Upto(processed, promise.at))
    /\ (promise.by = "final" /\ Upto(processed, promise.at) = ExampleFragments)
          => promise.value = HelloWorld

\* the example stream was finalized
C13_Witness ==
    /\ promise.by = "final"
    /\ processed = ExampleFragments
    /\ promise.value = HelloWorld

\* C14 as stated: the first fragment whose partial flag is not true
\* finalizes the aggregator at once, with or without accumulated text, and
\* no later event changes the reply.
C14_AnyFinalFragmentFinalizes ==
    [][/\ \A i \in DOMAIN processed' :
             FinalFragment(processed'[i])
                => /\ promise'.state # "pending"
                   /\ promise'.by = "final" => promise'.at <= i
       /\ promise.state # "pending" => promise' = promise]_vars

\* C14 amended: the first fragment whose partial flag is not true and that
\* arrives when some text has been accumulated (its own included) finalizes
\* the aggregator at once with that text; a final fragment arriving while no
\* text has been accumulated does not finalize; once the promise is settled
\* no later event changes the reply.
C14_FinalFragmentWithTextFinalizes ==
    [][/\ \A i \in DOMAIN processed' :
             (/\ FinalFragment(processed'[i])
              /\ LastCarried(Upto(processed', i)) # NoText)
                => /\ promise'.state # "pending"
                   /\ promise'.by = "final" => promise'.at <= i
       /\ promise'.by = "final" =>
             /\ promise'.at \in DOMAIN processed'
             /\ FinalFragment(processed'[promise'.at])
             /\ promise'.value = LastCarried(Upto(processed', promise'.at))
             /\ promise'.value # NoText
       /\ promise.state # "pending" => promise' = promise]_vars

\* a final fragment without text did not finalize, a later one with text
\* did, and a fragment processed after it left the reply alone
C14_Witness ==
    /\ promise.by = "final"
    /\ \E i \in 1..(promise.at - 1) : FinalFragment(processed[i])
    /\ Len(processed) > promise.at
    /\ streamReply = promise.value

\* C15: when the stream ends before any fragment finalized it, the reply is
\* the last seen text if a fragment carried text, and the fixed incomplete-
\* response text otherwise; it is never empty.
C15_EndGivesLastTextOrFallback ==
    promise.by = "end" =>
        /\ promise.state = "resolved"
        /\ promise.value = IF LastCarried(processed) # NoText
                           THEN LastCarried(processed) ELSE StreamIncompleteText
        /\ promise.value # NoText
        /\ streamReply = promise.value

\* a stream of partial fragments ended with text seen
C15_Witness ==
    /\ promise.by = "end"
    /\ processed # <<>>
    /\ \A i \in DOMAIN processed : ~FinalFragment(processed[i])
    /\ promise.value = LastCarried(processed)
    /\ promise.value # NoText

\* C16: the timer fires at twice the backend request timeout; when it fires
\* on a stream that has not finished, the turn ends with exactly the text
\* accumulated so far, or with the fixed timed-out text when there is none:
\* a resolved, non-empty reply, not an error.
C16_TimeoutGivesAccumulatedText ==
    [][(timer = "armed" /\ timer' = "fired")
          => /\ elapsed = adkTimeout + adkTimeout
             /\ promise.state = "pending" =>
                   /\ promise'.state = "resolved"
                   /\ promise'.value = IF LastCarried(processed) # NoText
                                       THEN LastCarried(processed)
                                       ELSE StreamTimedOutText
                   /\ promise'.value # NoText
                   /\ streamReply' = promise'.value]_vars

\* a stream delivered one partial text, stalled, and the timer ended the turn
C16_Witness ==
    /\ promise.by = "timeout"
    /\ streamState = "open"
    /\ processed = <<Event(TRUE, <<TextPart(He)>>, NoText, <<>>)>>
    /\ promise.value = He
    /\ streamReply = He

\* the replies of the catch block of sendToADK
RetryTexts == {<<UnexpectedErrorText>>, <<TimedOutText>>, <<UnavailableText>>}

\* C17: a stream error before any terminal event rejects the promise: the
\* turn's reply is the retry text of sendToADK's catch block, and none of
\* the text accumulated before the error is delivered.
C17_StreamErrorGivesRetryText ==
    [][/\ (streamState = "open" /\ streamState' = "errored"
                                /\ promise.state = "pending")
          => /\ promise'.state = "rejected"
             /\ streamReply' \in RetryTexts
             /\ streamReply' # fullResponse
             /\ promise'.value = NoText
       /\ promise.state = "rejected"
          => /\ promise' = promise
             /\ streamReply' = streamReply]_vars

\* a stream failed after text had been accumulated
C17_Witness ==
    /\ promise.state = "rejected"
    /\ fullResponse # NoText
    /\ streamReply \in RetryTexts

\* the inline binary parts of a sequence of parts / of events, in order
RECURSIVE InlineOfParts(_)
InlineOfParts(parts) ==
    IF parts = <<>> THEN <<>>
    ELSE (IF Head(parts).inline_data # NoInline
          THEN <<[mimeType |-> Head(parts).inline_data.mime_type,
                  data |-> Head(parts).inline_data.data]>>
          ELSE <<>>) \o InlineOfParts(Tail(parts))

RECURSIVE InlineOfEvents(_)
InlineOfEvents(events) ==
    IF events = <<>> THEN <<>>
    ELSE InlineOfParts(Head(events).parts) \o InlineOfEvents(Tail(events))

\* the images of a reply that came from artifact references / inline parts
FromArtifacts(images) == SelectSeq(images, LAMBDA im : im.data \in ArtifactNames)
FromInline(images) == SelectSeq(images, LAMBDA im : im.data \notin ArtifactNames)

\* C18: every inline binary part of every fragment or event of a response,
\* partial or final, is in the reply's images exactly once, in arrival order.
C18_EveryInlinePartInReply ==
    /\ promise.state = "resolved" =>
          streamReplyImages = InlineOfEvents(Upto(processed, promise.at))
    /\ (responseData.shape = "array") =>
          FromInline(result.images) = InlineOfEvents(responseData.events)

\* a name whose extension is one of the image extensions
ImageExtensions == {".png", ".jpg", ".jpeg", ".webp"}
HasImageExtension(name) == name # <<>> /\ name[Len(name)] \in ImageExtensions

\* the artifact names referenced by a sequence of events, in order
RECURSIVE ReferencedNames(_)
ReferencedNames(events) ==
    IF events = <<>> THEN <<>>
    ELSE Head(events).artifactDelta \o ReferencedNames(Tail(events))

\* C19: only references with an image extension are resolved through the
\* artifact store; other references are ignored; a resolution that returns
\* nothing or fails adds no image and leaves the text and the other images
\* of the reply as they are.
C19_OnlyImageExtensionsResolved ==
    (responseData.shape = "array") =>
        /\ FromArtifacts(result.images) =
              [i \in DOMAIN SelectSeq(ReferencedNames(responseData.events),
                                      LAMBDA n : HasImageExtension(n) /\ loads[n] = "image")
                 |-> [mimeType |-> "image/png",
                      data |-> SelectSeq(ReferencedNames(responseData.events),
                                         LAMBDA n : HasImageExtension(n)
                                                    /\ loads[n] = "image")[i]]]
        /\ FromInline(result.images) = InlineOfEvents(responseData.events)
        /\ result.text # NoText

\* the number of text parts, thoughts included, in a sequence of events
RECURSIVE TextParts(_)
TextParts(events) ==
    IF events = <<>> THEN 0
    ELSE Len(SelectSeq(Head(events).parts, LAMBDA p : p.text # NoText))
         + TextParts(Tail(events))

\* the events of a log of lines
EventsOf(log) == SelectSeq(log, LAMBDA e : ~e.junk)

\* the stream has delivered all its events and was finalized by a fragment
\* or by its end
StreamCompleted ==
    /\ streamState = "ended"
    /\ ~buffer
    /\ promise.by \in {"final", "end"}

\* C20 as stated: for every sequence of events the text of the non-streaming
\* handler equals the text the streaming aggregator finalizes for the same
\* events delivered as fragments.
C20_SameTextAsStreaming ==
    StreamCompleted =>
        promise.value =
            handleNonStreamingResponse(ArrayData(EventsOf(delivered)), loads).text

\* no event of the log has a top-level response text
NoEventResponse(log) == \A i \in DOMAIN log : log[i].junk \/ log[i].response = NoText

\* C20 amended: the two texts are equal for every sequence of events in
\* which exactly one part carries text, that part is not a thought, and no
\* event has a top-level response text (the non-streaming handler
\* concatenates the text of every text part and takes a top-level response
\* text, the streaming aggregator keeps the latest fragment's part text).
C20_SameTextForOneTextPart ==
    (/\ StreamCompleted
     /\ TextParts(EventsOf(delivered)) = 1
     /\ LastCarried(delivered) # NoText
     /\ NoEventResponse(delivered))
    => promise.value =
           handleNonStreamingResponse(ArrayData(EventsOf(delivered)), loads).text

\* a stream of several events with one text part was finalized
C20_Witness ==
    /\ StreamCompleted
    /\ TextParts(EventsOf(delivered)) = 1
    /\ LastCarried(delivered) # NoText
    /\ NoEventResponse(delivered)
    /\ Len(EventsOf(delivered)) >= 2
    /\ promise.value = LastCarried(delivered)

(***************************************************************************)
(* Claims about reading the artifact store                                 *)
(***************************************************************************)
\* the filename was written for the user under the flat layout
WrittenFlat(userId, filename) ==
    \E p \in DOMAIN objects :
        /\ p[1] = artifactsFolder
        /\ SubSeq(p, 2, 4) = <<AppName, userId, filename>>

\* the filename was written for the user by saveArtifact with a session id
WrittenSessionScoped(userId, filename) ==
    \E k \in ArtKeys : k[2] = userId /\ k[4] = filename /\ returned[k] # <<>>

\* C21: a filename written under the flat layout and a filename written
\* under the session-scoped layout both appear in the result of one
\* listArtifactKeys call for that user.
C21_BothConventionsListed ==
    (readOp.op = "listArtifactKeys" /\ readOp.storeOk) =>
        \A f \in Filenames :
            (WrittenFlat(readOp.key[2], f) \/ WrittenSessionScoped(readOp.key[2], f))
                => f \in readOp.keys

\* {appName}/{userId}/{sessionId}/{filename}/{version}
SessionScopedPath(k, n) == <<k[1], k[2], k[3], k[4], BareSegment(n)>>

\* C22: every saveArtifact call that returns a version has written its
\* payload at {appName}/{userId}/{sessionId}/{filename}/{version}, version
\* being the number it returns, and nowhere else.
C22_SavedAtSessionScopedPath ==
    [][\A k \in ArtKeys :
          returned'[k] # returned[k] =>
              LET path == SessionScopedPath(k, returned'[k][Len(returned'[k])])
              IN  /\ path \in DOMAIN objects'
                  /\ \A p \in DOMAIN objects' \ {path} :
                         p \in DOMAIN objects /\ objects'[p] = objects[p]]_vars

\* the versions stored under a logical key, the sentinel 0 left out
StoredVersions(k) ==
    {p[5][2] : p \in {q \in DOMAIN objects : SubSeq(q, 1, 4) = <<k[1], k[2], k[3], k[4]>>}}
        \ {0}

\* the payload stored under a key with version number n
StoredPayload(k, n) ==
    LET ps == {q \in DOMAIN objects :
                  SubSeq(q, 1, 4) = <<k[1], k[2], k[3], k[4]>> /\ q[5][2] = n}
    IN  objects[CHOOSE q \in ps : TRUE]

\* C23: the session-scoped latest-load of a key returns the payload at the
\* version-0 sentinel when that object exists, otherwise the payload of the
\* maximum existing version of the key, and nothing only when the key has
\* no version at all.
C23_SessionLoadReturnsLatest ==
    (readOp.op = "loadArtifactBySession" /\ readOp.version = 0 /\ readOp.storeOk) =>
        readOp.result =
            IF SessionScopedPath(readOp.key, 0) \in DOMAIN objects
            THEN PartOf(objects[SessionScopedPath(readOp.key, 0)])
            ELSE IF StoredVersions(readOp.key) # {}
            THEN PartOf(StoredPayload(readOp.key, Max(StoredVersions(readOp.key))))
            ELSE Null

\* C27: a load during which a store operation fails ends in a failure its
\* caller can tell from a missing artifact, and a save during which a store
\* operation fails returns no version.
C27_StoreFailuresSurfaced ==
    [][/\ (readOp'.op \in {"loadArtifact", "loadArtifactBySession"} /\ ~readOp'.storeOk)
           => readOp'.result.kind = "threw"
       /\ \A k \in ArtKeys :
             ((listFailed'[k] /\ ~listFailed[k]) \/ (saveThrew'[k] /\ ~saveThrew[k]))
                 => returned'[k] = returned[k]]_vars

(***************************************************************************)
(* Claims about load by filename with version fallback                     *)
(***************************************************************************)
\* the trailing version suffixes: " v<N>", "_v<N>", " (<N>)"
VersionSuffixes ==
    {p.open \o d \o p.close :
        p \in {version_patterns[i] : i \in 1..Len(version_patterns)},
        d \in {s \in SeqsUpTo(Digits, MaxSuffix) : s # <<>>}}

\* the filename without one trailing version suffix, where it has one
Stripped(filename) == {c \in {SubSeq(filename, 1, k) : k \in 0..Len(filename)} :
                          \E x \in VersionSuffixes : c \o x = filename}

Range(seq) == {seq[i] : i \in 1..Len(seq)}

StartInterleaved(t, u, media) ==
    /\ pc[t] = "idle"
    /\ \A x \in Turns : x < t => pc[x] # "idle"
    /\ u \in participants
    /\ turns[u] < MaxTurns
    /\ turns' = [turns EXCEPT ![u] = @ + 1]
    /\ tuser' = [tuser EXCEPT ![t] = u]
    /\ hasMedia' = [hasMedia EXCEPT ![t] = media]
    /\ IF u \in DOMAIN activeSessions
       THEN LET s == [activeSessions[u] EXCEPT !.lastActivity = now]
            IN  /\ session' = [session EXCEPT ![t] = s]
                /\ activeSessions' = [activeSessions EXCEPT ![u] = s]
                /\ lookup' = [lookup EXCEPT ![t] = [how |-> "hit", fileSid |-> FileSid(u)]]
                /\ resolutions' = Resolved(u, s, "cache", FALSE)
                /\ pc' = [pc EXCEPT ![t] = "actRead"]
       ELSE /\ pc' = [pc EXCEPT ![t] = "lookup"]
            /\ UNCHANGED <<session, activeSessions, lookup, resolutions>>
    /\ UNCHANGED <<aggVars, auxVars, artVars, participants, now, sessionFiles, sessionData, adkSid,
                   sublog, response, sent, aborted, storeFault, interrupted, replaced>>

InterleavedStart == \E t \in Turns, media \in BOOLEAN : StartInterleaved(t, U1, media)
InterleavedMedia == \E t \in Turns : Media(t, TRUE, TRUE, TRUE)
InterleavedCreate == \E t \in Turns : \E id \in FreshIds(tuser[t]) : Create(t, id)

\* every call of the store and of the backend succeeds
InterleavedNext ==
    \/ InterleavedStart
    \/ DirectoryLookup
    \/ DirectoryActivityRead
    \/ DirectoryActivityWrite
    \/ InterleavedCreate
    \/ DirectoryStore
    \/ InterleavedMedia
    \/ DirectorySubmit
    \/ ReplyStep
    \/ FinishStep
    \/ Tick

InterleavedSpec == Init /\ [][InterleavedNext]_vars

\* ------------------------------------------------------------------------
\* A text of the bounded set is split
Texts == SeqsUpTo(TextChars, MaxText)

SplitMessageStep ==
    /\ ~delivery.done
    /\ \E text \in Texts, maxLength \in 1..MaxChunk : SplitMessage(text, maxLength)

SplitNext == SplitMessageStep

SplitSpec == Init /\ [][SplitNext]_vars

\* ------------------------------------------------------------------------
\* An event of the bounded set is delivered
HandleUpsertStep ==
    /\ ~upsert.done
    /\ \E messages \in Batches : HandleUpsert(messages)

UpsertNext == HandleUpsertStep

UpsertSpec == Init /\ [][UpsertNext]_vars

\* ------------------------------------------------------------------------
\* The endpoint is selected
LoadEndpointsStep ==
    \E production \in ProductionUrls, staging \in StagingUrls :
        LoadEndpoints(production, staging)
ProbeProductionStep == \E o \in FetchOutcomes : ProbeProduction(o)
ProbeStagingStep == \E o \in FetchOutcomes : ProbeStaging(o)

EndpointNext ==
    \/ LoadEndpointsStep
    \/ ProbeProductionStep
    \/ ProbeStagingStep

EndpointSpec == Init /\ [][EndpointNext]_vars

(***************************************************************************)
(* Claims about attachments                                                *)
(***************************************************************************)
\* the MIME type the attachment resolves to
ResolvedMime(message) ==
    IF message.mimetype # "" THEN message.mimetype
    ELSE IF message.detected # "" THEN message.detected
    ELSE OctetStream

\* the format a MIME type is converted from, "" when it is not converted
SourceFormat(mimeType) ==
    IF mimeType = XlsxMime THEN "XLSX" ELSE IF mimeType = DocxMime THEN "DOCX" ELSE ""

\* the words that name a format in a text
FormatNames(format) ==
    IF format = "XLSX" THEN {"XLSX", "Excel"}
    ELSE IF format = "DOCX" THEN {"DOCX", "Word"} ELSE {}

NamesFormat(text, format) == Range(text) \cap FormatNames(format) # {}

EndsInTxt(filename) == filename # <<>> /\ filename[Len(filename)] = ".txt"

\* the artifacts in the bucket, as (filename, payload)
SavedArtifacts == {<<p[4], objects[p]>> : p \in DOMAIN objects}

\* C25: an attachment whose MIME type resolves to the spreadsheet or the
\* word-processor type is returned and saved with a filename ending in .txt,
\* mimeType text/plain, converted = true and originalFormat naming the source,
\* whatever the declared filename; every other attachment keeps its filename,
\* MIME type and payload and is not marked converted.
C25_ConvertedNamedTxt ==
    (mediaResult.done /\ ~mediaResult.threw) =>
        LET message == mediaResult.message
            format == SourceFormat(ResolvedMime(message))
        IN  IF format # ""
            THEN /\ EndsInTxt(mediaResult.filename)
                 /\ mediaResult.mimeType = TextPlain
                 /\ mediaResult.converted
                 /\ mediaResult.originalFormat = format
                 /\ \E a \in SavedArtifacts : a[1] = mediaResult.filename /\ EndsInTxt(a[1])
            ELSE /\ message.fileName # <<>> => mediaResult.filename = message.fileName
                 /\ mediaResult.mimeType = ResolvedMime(message)
                 /\ mediaResult.part.data = RawBuffer
                 /\ ~mediaResult.converted
                 /\ <<mediaResult.filename, RawBuffer>> \in SavedArtifacts

\* C26: when the conversion of a spreadsheet or word-processor attachment
\* throws, processing fails with an error that identifies the original
\* format, no artifact is saved, nothing is submitted to the backend for the
\* turn, and the message sent to the user names that format.
C26_ConversionFailureNamesFormat ==
    [][(~mediaResult.done /\ mediaResult'.done /\ mediaResult'.convertThrew) =>
          LET format == SourceFormat(ResolvedMime(mediaResult'.message))
          IN  /\ mediaResult'.threw
              /\ NamesFormat(mediaResult'.error, format)
              /\ objects' = objects
              /\ ~mediaParts'.submitted
              /\ \E i \in 1..Len(mediaSent') : NamesFormat(mediaSent'[i], format)]_vars

(***************************************************************************)
(* Claims about the session directory with several users                   *)
(***************************************************************************)
\* C28: distinct users have distinct durable session records, so a user
\* seen for the first time is never resolved as returning with the session
\* of another user.
C28_NeverSeenUserNotReturning ==
    \A u \in participants :
        resolutions[u] # <<>> => ~resolutions[u][1].isReturningUser

\* the cache entries whose lastActivity is older than the max age
OlderThanMaxAge(cache, clock) ==
    {u \in DOMAIN cache : (clock - cache[u].lastActivity) * TickMs > sessionMaxAgeMs}

\* C29: the periodic sweep removes from the in-memory cache exactly the
\* entries whose lastActivity is older than the max age, leaves every other
\* entry as it was, and leaves the durable session records untouched.
C29_SweepEvictsExactlyExpired ==
    [][Sweep =>
          /\ DOMAIN activeSessions' =
                 DOMAIN activeSessions \ OlderThanMaxAge(activeSessions, now)
          /\ \A u \in DOMAIN activeSessions' : activeSessions'[u] = activeSessions[u]
          /\ sessionFiles' = sessionFiles]_vars

\* one user's entry has been swept while the other user's, newer, is kept
C29_Witness ==
    /\ now = 1
    /\ resolutions[U3] # <<>>
    /\ \A t \in Turns : tuser[t] # U3
    /\ U3 \notin DOMAIN activeSessions
    /\ U4 \in DOMAIN activeSessions
    /\ activeSessions[U4].lastActivity = now
    /\ sessionFiles # <<>>

(***************************************************************************)
(* Claims about the activity update of the durable record                  *)
(***************************************************************************)
\* the durable record of a user, NoFile when there is none
RecordOf(files, u) ==
    IF getSessionFilePath(u) \in DOMAIN files THEN files[getSessionFilePath(u)] ELSE NoFile

\* the record keeps its backendSessionId, userId and createdAt
SameMapping(old, new) ==
    /\ new.sessionId = old.sessionId
    /\ new.userId = old.userId
    /\ new.createdAt = old.createdAt

\* the turn goes from resolving its session on to the media step or the
\* submission
SessionResolved(t) ==
    /\ pc[t] \in {"actRead", "actWrite", "store"}
    /\ pc'[t] \in {"media", "submit"}

\* C30: every turn for a user who already has a mapping updates lastActivity
\* in the user's durable record and leaves the record's backendSessionId,
\* userId and createdAt unchanged.
C30_EveryTurnUpdatesActivity ==
    [][\A t \in Turns :
          (SessionResolved(t) /\ lookup[t].fileSid # 0) =>
              LET new == RecordOf(sessionFiles', tuser[t])
              IN  /\ new.sessionId = lookup[t].fileSid
                  /\ new.userId = tuser[t]
                  /\ new.lastActivity >= session[t].lastActivity]_vars

\* C30 (amended): a turn for a user who already has a mapping, in which the
\* reads and the write of the mapping succeed, updates lastActivity in the
\* user's durable record and leaves the record's backendSessionId, userId and
\* createdAt unchanged.
C30_TurnUpdatesActivityWhenStoreAnswers ==
    [][\A t \in Turns :
          LET old == RecordOf(sessionFiles, tuser[t])
              new == RecordOf(sessionFiles', tuser[t])
          IN  old # NoFile =>
                  /\ Lookup(t, TRUE) => pc'[t] = "actRead"
                  /\ ActivityRead(t, TRUE) =>
                         /\ pc'[t] = "actWrite"
                         /\ new = old
                  /\ ActivityWrite(t, TRUE) =>
                         /\ SessionResolved(t)
                         /\ SameMapping(old, new)
                         /\ new.lastActivity >= session[t].lastActivity
                         /\ new.lastActivity >= old.lastActivity]_vars

\* the user's second turn has updated, at time 1, the record created at time 0
C30_Witness ==
    \E t \in Turns :
        /\ tuser[t] = U1
        /\ turns[U1] = 2
        /\ pc[t] = "submit"
        /\ ~storeFault[U1]
        /\ RecordOf(sessionFiles, U1).createdAt = 0
        /\ RecordOf(sessionFiles, U1).lastActivity = 1
        /\ RecordOf(sessionFiles, U1).sessionId = session[t].sessionId

(***************************************************************************)
(* Claims about the order of the steps of a turn                           *)
(***************************************************************************)
\* the turn's attachment is in the artifacts bucket under the turn's session
AttachmentSaved(t, objs) ==
    \E p \in DOMAIN objs :
        SubSeq(p, 1, 4) = <<AppName, tuser[t], session[t].sessionId, "a.png">>

\* C31: in every turn the backend submission is made only after the session
\* has been resolved and the attachment has been processed and saved; when
\* processing or saving the attachment fails, the turn makes no submission.
C31_SubmissionAfterSessionAndMedia ==
    [][\A t \in Turns :
          /\ (\E o \in Outcomes : Submit(t, o)) =>
                 /\ pc[t] = "submit"
                 /\ session[t].sessionId # 0
                 /\ adkSid[t] # 0
          /\ (pc'[t] = "submit" /\ pc[t] \notin {"submit", "recreate"} /\ hasMedia'[t]) =>
                 /\ pc[t] = "media"
                 /\ AttachmentSaved(t, objects')
          /\ (\/ \E listOk \in BOOLEAN, writeOk \in BOOLEAN : Media(t, FALSE, listOk, writeOk)
              \/ \E downloadOk \in BOOLEAN, listOk \in BOOLEAN : Media(t, downloadOk, listOk, FALSE)) =>
                 /\ pc'[t] = "done"
                 /\ objects' = objects
                 /\ sublog'[t] = <<>>
          /\ (pc[t] = "done" /\ sublog[t] = <<>>) => sublog'[t] = <<>>]_vars

\* a turn with an attachment has saved it and then been answered by the backend
C31_Witness ==
    \E t \in Turns :
        /\ hasMedia[t]
        /\ pc[t] = "reply"
        /\ AttachmentSaved(t, objects)
        /\ sublog[t] # <<>>
        /\ sublog[t][1].media
        /\ sublog[t][1].status = 200

(***************************************************************************)
(* Claims about the terminal outcome of a streamed response                *)
(***************************************************************************)
\* C32: a run of the streaming aggregator reaches at most one terminal
\* outcome and that outcome is absorbing: a timer expiry, further data, the
\* end of the stream or a stream error after it never changes the result
\* returned for the turn.
C32_TerminalOutcomeAbsorbing ==
    [][promise.state # "pending" =>
          /\ promise' = promise
          /\ streamReply' = streamReply]_vars

\* the stream finalized on a fragment; after that more text arrived, the
\* stream ended and the timer fired
C32_Witness ==
    /\ promise.state = "resolved"
    /\ promise.by = "final"
    /\ fullResponse # promise.value
    /\ streamState = "ended"
    /\ timer = "fired"

(***************************************************************************)
(* Claims about failures of the session-scoped load                        *)
(***************************************************************************)
\* C33: loadArtifactBySession never throws: a missing object, a failed
\* connectivity test, an existence check or download that times out, and any
\* store error each give null to the caller.
C33_SessionLoadNeverThrows ==
    readOp.op = "loadArtifactBySession" =>
        /\ readOp.result.kind # "threw"
        /\ ~readOp.storeOk => readOp.result = Null
        /\ Append(readOp.key, BareSegment(readOp.version)) \notin DOMAIN objects =>
               readOp.result = Null

(***************************************************************************)
(* Claims about the reply of a turn                                        *)
(***************************************************************************)
\* the texts handleNonStreamingResponse can return for a response body
ReplyTexts ==
    {handleNonStreamingResponse(d, ld).text :
        d \in Envelopes, ld \in [ArtifactNames -> LoadOutcomes]}

\* C34: when the handling of an accepted message completes, at least one
\* message has been sent to the sender and the reply text is not empty, on
\* every path: failed session creation, failed media processing, backend
\* error, and a response body of an unrecognised format.
C34_CompletedTurnHasReplied ==
    \A t \in Turns :
        pc[t] = "done" =>
            /\ sent[t] >= 1
            /\ response[t] # NoResponse
            /\ response[t] = AnswerText => NoText \notin ReplyTexts

\* a turn has completed with the backend's answer, and the answer to a body
\* of an unrecognised format is among the texts
C34_Witness ==
    \E t \in Turns :
        /\ pc[t] = "done"
        /\ response[t] = AnswerText
        /\ sent[t] >= 1
        /\ UnexpectedFormatText \in ReplyTexts

\* ------------------------------------------------------------------------
\* Claims about the session of an attachment

\* the session ids under which turn t's attachment is in the store
SavedUnder(t) ==
    {p[3] : p \in {q \in DOMAIN objects :
                       SubSeq(q, 1, 2) = <<AppName, tuser[t]>> /\ q[4] = "a.png"}}

\* C35: in a turn with an attachment, a submission the backend accepted
\* carries the session id under which the attachment was saved, also after
\* the recovery from a session fault.
C35_AttachmentUnderSubmittedSession ==
    \A t \in Turns :
        hasMedia[t] =>
            \A i \in 1..Len(sublog[t]) :
                (sublog[t][i].status = 200 /\ sublog[t][i].code = "") =>
                    sublog[t][i].sessionId \in SavedUnder(t)

\* ------------------------------------------------------------------------
\* Claims about two messages of one user

\* the sessions created for a user in its first resolutions
CreatedFor(u) ==
    {i \in DOMAIN resolutions[u] : resolutions[u][i].created}

\* C36: when two messages of the same never-seen user are handled with their
\* calls interleaved at the awaits, one backend session is created, both
\* turns are submitted under its id, and that id is the one in the cache and
\* in the durable mapping.
C36_OneSessionForInterleavedTurns ==
    (/\ \A t \in Turns : tuser[t] = U1 /\ sublog[t] # <<>>
     /\ turns[U1] = 2) =>
        /\ Cardinality(CreatedFor(U1)) = 1
        /\ sublog[1][1].sessionId = sublog[2][1].sessionId
        /\ U1 \in DOMAIN activeSessions
        /\ activeSessions[U1].sessionId = sublog[1][1].sessionId
        /\ FileSid(U1) = sublog[1][1].sessionId

\* ------------------------------------------------------------------------
\* Claims about the chunks of a long reply

\* C37: for every text and every maxLength >= 1, each chunk splitMessage
\* returns is at most maxLength long, also when the text has one word longer
\* than twice maxLength.
C37_ChunksWithinMaxLength ==
    delivery.done =>
        \A i \in 1..Len(delivery.chunks) : Len(delivery.chunks[i]) <= delivery.maxLength

\* ------------------------------------------------------------------------
\* Claims about the messages of an event

\* C38: of an event with one message or more, each message that has a content
\* and a sender id is dispatched, whatever its position in the event.
C38_EveryMessageOfBatchDispatched ==
    upsert.done =>
        \A i \in 1..Len(upsert.messages) :
            (upsert.messages[i].hasContent /\ upsert.messages[i].remoteJid # "" /\
             (upsert.messages[i].hasText \/ upsert.messages[i].hasMedia)) =>
                i \in upsert.dispatched

\* ------------------------------------------------------------------------
\* Claims about the selection of the endpoint

\* C39: getActiveAdkEndpoint returns the production URL when the production
\* health check passes, without a probe of staging; the staging URL exactly
\* when production fails and staging passes; the production URL when both
\* fail; and never anything but one of the two URLs.
C39_EndpointSelection ==
    endpoint.pc = "done" =>
        LET probes == endpoint.probes
        IN  /\ endpoint.returned \in {endpoint.production, endpoint.staging}
            /\ Len(probes) >= 1
            /\ probes[1].url = healthUrl(endpoint.production)
            /\ probes[1].healthy =>
                   /\ endpoint.returned = endpoint.production
                   /\ Len(probes) = 1
            /\ ~probes[1].healthy =>
                   /\ Len(probes) = 2
                   /\ probes[2].url = healthUrl(endpoint.staging)
            /\ endpoint.returned = endpoint.staging <=>
                   (Len(probes) = 2 /\ ~probes[1].healthy /\ probes[2].healthy)
            /\ (Len(probes) = 2 /\ ~probes[2].healthy) =>
                   endpoint.returned = endpoint.production

C39_Witness ==
    /\ endpoint.pc = "done"
    /\ Len(endpoint.probes) = 2
    /\ endpoint.probes[1].outcome.kind = "response"
    /\ endpoint.probes[1].outcome.status = 200
    /\ ~endpoint.probes[1].healthy
    /\ ~endpoint.probes[2].healthy
    /\ endpoint.production.slash
    /\ endpoint.returned = endpoint.production

====
